---- MODULE Spec2Model ----
(***************************************************************************)
(* OpenMemory dashboard: the memory listing held by the UI (Redux store    *)
(* and MemoriesSection), the useMemoriesApi / useUsersApi hooks that issue  *)
(* asynchronous requests, and the memory records held by the API server.   *)
(*                                                                         *)
(* Every request is modelled in three steps: the handler's synchronous     *)
(* part up to its await (the request is put in flight together with the    *)
(* values its closure captured), the server processing it, and the         *)
(* continuation of the handler when the response arrives.  Responses may   *)
(* arrive in any order.                                                    *)
(***************************************************************************)
EXTENDS Integers, Sequences, FiniteSets, TLC

\* ---------------------------------------------------------------- bounds
NumMem == 2
\* requests in flight at once
MaxInFlight == 2
\* requests that may be in flight when a bulk action or a detail fetch is issued
MaxOverlap == 0

\* ------------------------------------------------------ program constants
DefaultPage == 1
DefaultSize == 10

\* ----------------------------------------------------------------- values
None == <<>>
Some(v) == <<v>>
IsSome(o) == Len(o) > 0
Get(o) == o[1]

MemIds == 1..NumMem
\* an identifier that matches no record
GhostId == NumMem + 1
\* the selections offered to the bulk actions
Selections == (SUBSET MemIds) \cup {{NumMem, GhostId}}
\* the memories whose detail page is opened; 0 stands for the empty identifier
DetailIds == {0, 1, GhostId}

States == {"active", "paused", "archived", "deleted"}
Queries == {"", "a"}
Hooks == {"MemoriesSection", "MemoryFilters", "FilterComponent", "Navbar", "UsersSection",
          "CreateUserDialog", "SearchMemoriesDialog", "CreateMemoryDialog"}

Mem(i, s) == [id |-> i, state |-> s]

RECURSIVE SeqFilter(_, _)
\* Array.prototype.filter with the predicate "id not in ids"
SeqFilter(seq, ids) ==
  IF seq = <<>> THEN <<>>
  ELSE IF Head(seq).id \in ids THEN SeqFilter(Tail(seq), ids)
       ELSE <<Head(seq)>> \o SeqFilter(Tail(seq), ids)

IdsOf(seq) == {seq[k].id : k \in DOMAIN seq}

CeilDiv(t, s) == (t + s - 1) \div s
Min(a, b) == IF a < b THEN a ELSE b

\* ------------------------------------------------------------------ server
\* A record after a state transition: the state is the target and exactly the
\* timestamp that belongs to it is set.
Transition(s) == [state |-> s, archived_at |-> (s = "archived"), deleted_at |-> (s = "deleted")]

\* POST /memories/actions/pause: applied uniformly, unknown identifiers skipped
ServerUpdateState(d, ids, s) ==
  [m \in MemIds |-> IF m \in ids THEN Transition(s) ELSE d[m]]

\* DELETE /memories/: soft delete
ServerDelete(d, ids) == ServerUpdateState(d, ids, "deleted")

\* the text of memory m contains q
Matches(m, q) == q = "" \/ (q = "a" /\ m = 1)

\* the fixed attributes of the records: owner, source app, category, metadata
Owner(m) == IF m = 1 THEN "u1" ELSE "u2"
AppId(m) == IF m = 1 THEN "app1" ELSE "app2"
AppName(m) == IF m = 1 THEN "A" ELSE "B"
CategoryOf(m) == IF m = 1 THEN "c1" ELSE "c2"
MetadataOf(m) == IF m = 1 THEN [topic |-> "x"] ELSE [topic |-> "y"]

Range(seq) == {seq[k] : k \in DOMAIN seq}

\* a list constraint that is present restricts to its members: present and
\* empty, it matches nothing
Among(v, o) == IsSome(o) => v \in Range(Get(o))

\* exact match on every key of a metadata constraint that is present
MetadataMatches(m, o) ==
  IsSome(o) => \A key \in DOMAIN Get(o) :
                 key \in DOMAIN MetadataOf(m) /\ MetadataOf(m)[key] = Get(o)[key]

Visible(d, m, body) ==
  /\ d[m].state # "deleted"
  /\ (d[m].state = "archived" => body.show_archived = Some(TRUE))
  /\ (IsSome(body.search_query) => Matches(m, Get(body.search_query)))
  /\ Among(Owner(m), body.user_id)
  /\ Among(Owner(m), body.user_ids)
  /\ Among(AppId(m), body.app_ids)
  /\ Among(AppName(m), body.app_names)
  /\ Among(CategoryOf(m), body.category_ids)
  /\ MetadataMatches(m, body.metadata_filters)

\* all matching records, creation time descending (ascending when asked)
RECURSIVE Ordered(_, _, _)
Ordered(d, body, m) ==
  IF m = 0 THEN <<>>
  ELSE (IF Visible(d, m, body) THEN <<[id |-> m, state |-> d[m].state]>> ELSE <<>>)
       \o Ordered(d, body, m - 1)

RECURSIVE Reverse(_)
Reverse(seq) == IF seq = <<>> THEN <<>> ELSE Reverse(Tail(seq)) \o <<Head(seq)>>

Matching(d, body) ==
  IF body.sort_direction = Some("asc") THEN Reverse(Ordered(d, body, NumMem))
  ELSE Ordered(d, body, NumMem)

\* POST /memories/filter: {items, total, page, size, pages}
ServerFilter(d, body) ==
  LET all == Matching(d, body)
      total == Len(all)
      first == (body.page - 1) * body.size + 1
      last == Min(body.page * body.size, total)
  IN [items |-> SubSeq(all, first, last),
      total |-> total,
      pages |-> CeilDiv(total, body.size)]

\* GET /memories/{id}
ServerGet(d, m) == [id |-> m, state |-> d[m].state]

\* the users the server starts with
ServerUsers == <<"u1">>


\* ------------------------------------------------------------------ client
\* optional chaining: filters?.f
Field(filters, f) == IF IsSome(filters) THEN Get(filters)[f] ELSE None

\* a default parameter value: page = 1, size = 10
DefaultArg(o, d) == IF IsSome(o) THEN Get(o) ELSE d

\* a build that sends the list as given, empty or not
ListAsGiven(o) == o

\* list && list.length > 0 ? list : undefined
ListOrUndefined(o) == IF IsSome(o) /\ Len(Get(o)) > 0 THEN o ELSE None

\* map && Object.keys(map).length > 0 ? map : undefined
MapOrUndefined(o) == IF IsSome(o) /\ DOMAIN Get(o) # {} THEN o ELSE None

\* text || undefined
TextOrUndefined(o) == IF IsSome(o) /\ Get(o) # "" THEN o ELSE None

\* a build that always asks for the archived records
FlagAlwaysSet(o) == Some(TRUE)

\* flag || undefined
FlagOrUndefined(o) == IF IsSome(o) /\ Get(o) = TRUE THEN o ELSE None

toLowerCase(s) ==
  CASE s = "Created_At" -> "created_at"
    [] s = "Memory" -> "memory"
    [] OTHER -> s

LowerOrUndefined(o) ==
  IF IsSome(o) /\ toLowerCase(Get(o)) # "" THEN Some(toLowerCase(Get(o))) ELSE None

\* the body fetchMemories posts to /memories/filter
requestBody(query, page, size, filters) ==
  [user_id |-> None,
   user_ids |-> ListOrUndefined(Field(filters, "users")),
   page |-> DefaultArg(page, DefaultPage),
   size |-> DefaultArg(size, DefaultSize),
   search_query |-> TextOrUndefined(query),
   app_ids |-> ListOrUndefined(Field(filters, "apps")),
   app_names |-> ListOrUndefined(Field(filters, "app_names")),
   category_ids |-> ListOrUndefined(Field(filters, "categories")),
   sort_column |-> LowerOrUndefined(Field(filters, "sortColumn")),
   sort_direction |-> TextOrUndefined(Field(filters, "sortDirection")),
   show_archived |-> FlagOrUndefined(Field(filters, "showArchived")),
   metadata_filters |-> MapOrUndefined(Field(filters, "metadata"))]

\* response items adapted to the store's Memory shape
adaptedMemories(items) ==
  [k \in DOMAIN items |-> [id |-> items[k].id, state |-> items[k].state]]

\* a delete that leaves the list as captured
deleteMemoriesListKeepsAll(mems, ids) == mems

\* the list deleteMemories dispatches
deleteMemoriesList(mems, ids) == SeqFilter(mems, ids)

\* a map that toggles: a memory already in the target state goes back to active
MapStateToggle(mems, ids, s) ==
  [k \in DOMAIN mems |->
     IF mems[k].id \in ids
     THEN [mems[k] EXCEPT !.state = IF mems[k].state = s THEN "active" ELSE s]
     ELSE mems[k]]

\* memories.map(...) of updateMemoryState
MapState(mems, ids, s) ==
  [k \in DOMAIN mems |-> IF mems[k].id \in ids THEN [mems[k] EXCEPT !.state = s] ELSE mems[k]]

\* an update without the second dispatch: archived memories stay listed
updateMemoryStateListNoEvict(mems, ids, s) == MapState(mems, ids, s)

\* the list the store holds after updateMemoryState's dispatches: the mapped
\* list, then for "archived" the captured list without the identifiers
updateMemoryStateList(mems, ids, s) ==
  IF s = "archived" THEN SeqFilter(mems, ids) ELSE MapState(mems, ids, s)

\* an update that rewrites the selected memory whatever its id
updateMemoryStateSelectedAlways(current, captured, ids, s) ==
  IF IsSome(captured) THEN Some([Get(captured) EXCEPT !.state = s]) ELSE current

\* the selected memory after updateMemoryState: rewritten from the captured
\* one when its id is among the identifiers, else left as the store has it
updateMemoryStateSelected(current, captured, ids, s) ==
  IF IsSome(captured) /\ Get(captured).id \in ids
  THEN Some([Get(captured) EXCEPT !.state = s])
  ELSE current

\* a body that always asks for a pause, as the endpoint's name suggests
updateStateBodyPause(ids, s) == [memory_ids |-> ids, all_for_app |-> TRUE, state |-> "paused"]

\* the body updateMemoryState posts to /memories/actions/pause
updateStateBody(ids, s) == [memory_ids |-> ids, all_for_app |-> TRUE, state |-> s]

\* the body deleteMemories sends with DELETE /memories/
deleteBody(ids) == [memory_ids |-> ids]

\* store: state.filters.categories.items
Categories == <<[id |-> "c1", name |-> "work"], [id |-> "c2", name |-> "home"]>>

RECURSIVE CategoryIds(_, _)
\* categories.filter(cat => names.includes(cat.name)).map(cat => cat.id)
CategoryIds(cats, names) ==
  IF cats = <<>> THEN <<>>
  ELSE (IF Head(cats).name \in Range(names) THEN <<Head(cats).id>> ELSE <<>>)
       \o CategoryIds(Tail(cats), names)

selectedCategoryIds(names) == CategoryIds(Categories, names)

\* the filters argument MemoriesSection.loadMemories passes, f being
\* state.filters.apps and sa its showArchived
SectionFilters(f, sa) ==
  Some([apps |-> None, app_names |-> Some(f.selectedAppNames),
        categories |-> Some(selectedCategoryIds(f.selectedCategories)),
        users |-> Some(f.selectedUsers), metadata |-> Some(f.metadataFilters),
        sortColumn |-> Some(f.sortColumn), sortDirection |-> Some(f.sortDirection),
        showArchived |-> Some(sa)])

EmptyResult == [items |-> <<>>, total |-> 0, pages |-> 0]

\* a request in flight, with what the issuing closure captured
Request(kind, hook, section, body, ids, s, mems, sel, repeat) ==
  [kind |-> kind, hook |-> hook, section |-> section, body |-> body,
   ids |-> ids, state |-> s, capMemories |-> mems, capSelected |-> sel,
   phase |-> "sent", result |-> EmptyResult, stale |-> FALSE, repeat |-> repeat,
   args |-> None, capShowArchived |-> FALSE, alone |-> FALSE, detail |-> None]

NoBody == requestBody(None, None, None, None)
NoRequest == Request("none", "Navbar", FALSE, NoBody, {}, "active", <<>>, None, FALSE)

\* a fetchMemories call: args are its arguments, sa the showArchived its caller read
FetchRequest(hook, section, query, page, size, filters, sa) ==
  [Request("fetch", hook, section, requestBody(query, page, size, filters),
           {}, "active", <<>>, None, FALSE)
   EXCEPT !.args = Some(<<query, page, size, filters>>), !.capShowArchived = sa]


\* ------------------------------------------------------------------- state
VARIABLES
  db,              \* server: the memory records
  lastTarget,      \* history: target state of the last transition call that included the record
  memories,        \* store: state.memories.memories
  selectedMemory,  \* store: state.memories.selectedMemory
  accessLogs,      \* store: state.memories.accessLogs
  relatedMemories, \* store: state.memories.relatedMemories
  users,           \* useUsersApi: users
  showArchived,    \* store: state.filters.apps.showArchived
  search,          \* URL: the search parameter
  currentPage,     \* MemoriesSection: currentPage
  itemsPerPage,    \* MemoriesSection: itemsPerPage
  isLoading,       \* per hook instance: isLoading
  error,           \* per hook instance: error
  secMemories,     \* MemoriesSection: memories
  totalItems,      \* MemoriesSection: totalItems
  totalPages,      \* MemoriesSection: totalPages
  secLoading,      \* MemoriesSection: isLoading
  mounted,         \* MemoriesSection has mounted
  inflight,        \* requests in flight, in dispatch order
  lastStep,        \* history: the step taken last, with the identifiers and state of its call
  filtersApps,     \* store: state.filters.apps, but for showArchived
  dialog,          \* FilterComponent: isOpen and the temporary selections
  semanticSearch,  \* store: state.memories.semanticSearch
  toast,           \* the notification on screen
  userDb,          \* server: the user identifiers
  createUserDialog,\* CreateUserDialog: open, the User ID input, and the route
  dialogUsers,     \* useUsersApi instance of CreateUserDialog: users
  searchDialog,    \* SearchMemoriesDialog: open, query, selections, threshold and limit
  createMemoryDialog, \* CreateMemoryDialog: open, metadataText, metadataError
  createdMemories  \* server: the bodies of the memories created by POST /memories/

vars == <<db, lastTarget, memories, selectedMemory, accessLogs, relatedMemories, users,
          showArchived, search, currentPage, itemsPerPage, isLoading, error,
          secMemories, totalItems, totalPages, secLoading, mounted, inflight,
          lastStep, filtersApps, dialog, semanticSearch, toast, userDb, createUserDialog,
          dialogUsers, searchDialog, createMemoryDialog, createdMemories>>

\* what the store and the components display
data == <<memories, selectedMemory, accessLogs, relatedMemories, users,
          secMemories, totalItems, totalPages>>

serverVars == <<db, lastTarget, createdMemories>>
filterVars == <<showArchived, search, currentPage, itemsPerPage>>
sectionVars == <<secMemories, totalItems, totalPages>>
detailVars == <<selectedMemory, accessLogs, relatedMemories, users>>
usersVars == <<userDb, createUserDialog, dialogUsers>>
formVars == <<searchDialog, createMemoryDialog>>
uiVars == <<filtersApps, dialog, semanticSearch, toast, usersVars, formVars>>

\* filtersSlice.initialState.apps
initialFilters ==
  [selectedApps |-> <<>>, selectedAppNames |-> <<>>, selectedCategories |-> <<>>,
   selectedUsers |-> <<>>, metadataFilters |-> <<>>,
   sortColumn |-> "created_at", sortDirection |-> "desc"]

\* FilterComponent's useState initial values
initialDialog ==
  [isOpen |-> FALSE, tempSelectedApps |-> <<>>, tempSelectedAppNames |-> <<>>,
   tempSelectedCategories |-> <<>>, tempSelectedUsers |-> <<>>,
   showArchived |-> FALSE, metadataFilters |-> <<>>]

\* a dialog that keeps its temporary selections
tempsKept(d, f, sa) == d

\* the open effect of FilterComponent and the reset of handleDialogChange: the
\* temporary selections become the applied filters
tempsFromFilters(d, f, sa) ==
  [d EXCEPT !.tempSelectedApps = f.selectedApps,
            !.tempSelectedAppNames = f.selectedAppNames,
            !.tempSelectedCategories = f.selectedCategories,
            !.tempSelectedUsers = f.selectedUsers,
            !.showArchived = sa,
            !.metadataFilters = f.metadataFilters]

Step(op, r) ==
  IF op \in {"updateMemoryStateOk", "deleteMemoriesOk"}
  THEN [op |-> op, ids |-> r.ids, state |-> r.state, alone |-> r.alone,
        wasActive |-> FALSE, wasDirty |-> FALSE]
  ELSE [op |-> op, ids |-> {}, state |-> "none", alone |-> FALSE,
        wasActive |-> FALSE, wasDirty |-> FALSE]

\* history: a step of the filter dialog, with whether semantic search was
\* active and whether the temporary selections differed from the applied ones
DialogStep(op) ==
  [Step(op, NoRequest) EXCEPT
     !.wasActive = semanticSearch.active,
     !.wasDirty = (dialog # tempsFromFilters(dialog, filtersApps, showArchived))]

InitClient ==
  /\ lastTarget = [m \in MemIds |-> "none"]
  /\ memories = <<>>
  /\ selectedMemory = None
  /\ accessLogs = <<>>
  /\ relatedMemories = <<>>
  /\ users = <<>>
  /\ showArchived = FALSE
  /\ search = ""
  /\ currentPage = DefaultPage
  /\ itemsPerPage = DefaultSize
  /\ isLoading = [h \in Hooks |-> FALSE]
  /\ error = [h \in Hooks |-> None]
  /\ secMemories = <<>>
  /\ totalItems = 0
  /\ totalPages = 0
  /\ secLoading = FALSE
  /\ mounted = FALSE
  /\ inflight = <<>>
  /\ lastStep = Step("init", NoRequest)
  /\ filtersApps = initialFilters
  /\ dialog = initialDialog
  /\ semanticSearch = [active |-> FALSE, query |-> ""]
  /\ toast = None
  /\ createUserDialog = [open |-> FALSE, userId |-> "", route |-> "/users"]
  /\ dialogUsers = <<>>
  /\ searchDialog = [open |-> FALSE, query |-> "", selectedUsers |-> <<>>,
                     selectedApps |-> <<>>, threshold |-> 0, limit |-> 10,
                     selectAllUsers |-> TRUE, selectAllApps |-> TRUE]
  /\ createMemoryDialog = [open |-> FALSE, metadataText |-> "", metadataError |-> ""]

Init ==
  /\ db = [m \in MemIds |-> Transition("active")]
  /\ userDb = ServerUsers
  /\ createdMemories = <<>>
  /\ InitClient

\* --------------------------------------------------------------- dispatch
MarkStale(fl) ==
  [k \in DOMAIN fl |-> IF fl[k].kind = "fetch" THEN [fl[k] EXCEPT !.stale = TRUE] ELSE fl[k]]

\* history: a request overlapped by another is neither alone nor a repeat
ClearRepeat(fl) == [k \in DOMAIN fl |-> [fl[k] EXCEPT !.repeat = FALSE, !.alone = FALSE]]

\* the request leaves: a newer list fetch supersedes the list fetches in flight
Dispatch(fl, r) ==
  Append(ClearRepeat(IF r.kind = "fetch" THEN MarkStale(fl) ELSE fl),
         [r EXCEPT !.alone = (fl = <<>>)])

Remove(fl, i) == SubSeq(fl, 1, i - 1) \o SubSeq(fl, i + 1, Len(fl))

\* setIsLoading(true); setError(null)
StartLoading(hs) ==
  /\ isLoading' = [h \in Hooks |-> IF h \in hs THEN TRUE ELSE isLoading[h]]
  /\ error' = [h \in Hooks |-> IF h \in hs THEN None ELSE error[h]]

\* the request MemoriesSection.loadMemories issues from a render with search
\* parameter q, page and size, and the store's filters f and showArchived sa
SectionRequest(q, page, size, f, sa) ==
  FetchRequest("MemoriesSection", TRUE,
               Some(q), Some(page), Some(size), SectionFilters(f, sa), sa)

RECURSIVE DispatchAll(_, _)
DispatchAll(fl, rs) ==
  IF rs = <<>> THEN fl ELSE DispatchAll(Dispatch(fl, Head(rs)), Tail(rs))

\* the effects of MemoriesSection after searchParams changed to (q, page, size):
\* the render that sees the new searchParams runs loadMemories with the page
\* and size it still holds, the first effect stores the new page and size, and
\* when they differ the next render runs loadMemories again
SectionLoads(q, page, size, f, sa) ==
  <<SectionRequest(q, currentPage, itemsPerPage, f, sa)>>
  \o (IF <<page, size>> # <<currentPage, itemsPerPage>>
      THEN <<SectionRequest(q, page, size, f, sa)>> ELSE <<>>)

\* loadMemories returns at once while semantic search is active
Loads(active, rs) == IF active THEN <<>> ELSE rs

\* setIsLoading(true) of loadMemories and of the fetchMemories calls issued
Loading(hs, rs) ==
  /\ secLoading' = (rs # <<>> \/ secLoading)
  /\ StartLoading(hs \cup (IF rs # <<>> THEN {"MemoriesSection"} ELSE {}))

\* MemoriesSection mounts and its effect runs loadMemories
mount ==
  LET rs == Loads(semanticSearch.active,
                  <<SectionRequest(search, currentPage, itemsPerPage, filtersApps,
                                   showArchived)>>) IN
  /\ ~mounted
  /\ Len(inflight) + Len(rs) <= MaxInFlight
  /\ mounted' = TRUE
  /\ Loading({}, rs)
  /\ inflight' = DispatchAll(inflight, rs)
  /\ lastStep' = Step("mount", NoRequest)
  /\ UNCHANGED <<uiVars, serverVars, memories, detailVars, filterVars, sectionVars>>

\* MemoryFilters.handleSearch: the URL becomes /memories?search=q, which also
\* drops its page and size, and the effects run loadMemories
handleSearch(q) ==
  LET rs == Loads(semanticSearch.active,
                  SectionLoads(q, DefaultPage, DefaultSize, filtersApps, showArchived)) IN
  /\ mounted
  /\ q # search
  /\ Len(inflight) + Len(rs) <= MaxInFlight
  /\ search' = q
  /\ currentPage' = DefaultPage
  /\ itemsPerPage' = DefaultSize
  /\ Loading({}, rs)
  /\ inflight' = DispatchAll(inflight, rs)
  /\ lastStep' = Step("handleSearch", NoRequest)
  /\ UNCHANGED <<uiVars, serverVars, memories, detailVars, showArchived, sectionVars, mounted>>

\* the pagination controls are rendered
RangeShown == mounted /\ ~secLoading /\ secMemories # <<>>

\* MemoriesSection.handlePageChange(page): the URL gets page and the current size
handlePageChange(page) ==
  LET rs == Loads(semanticSearch.active,
                  SectionLoads(search, page, itemsPerPage, filtersApps, showArchived)) IN
  /\ RangeShown
  /\ page # currentPage
  /\ Len(inflight) + Len(rs) <= MaxInFlight
  /\ currentPage' = page
  /\ Loading({}, rs)
  /\ inflight' = DispatchAll(inflight, rs)
  /\ lastStep' = Step("handlePageChange", NoRequest)
  /\ UNCHANGED <<uiVars, serverVars, memories, detailVars, showArchived, search,
                 itemsPerPage, sectionVars, mounted>>

\* MemoriesSection.handlePageSizeChange(size): the URL gets page 1 and the size
handlePageSizeChange(size) ==
  LET rs == Loads(semanticSearch.active,
                  SectionLoads(search, 1, size, filtersApps, showArchived)) IN
  /\ RangeShown
  /\ size # itemsPerPage
  /\ Len(inflight) + Len(rs) <= MaxInFlight
  /\ currentPage' = 1
  /\ itemsPerPage' = size
  /\ Loading({}, rs)
  /\ inflight' = DispatchAll(inflight, rs)
  /\ lastStep' = Step("handlePageSizeChange", NoRequest)
  /\ UNCHANGED <<uiVars, serverVars, memories, detailVars, showArchived, search,
                 sectionVars, mounted>>

\* the filters argument FilterComponent.handleApplyFilters passes, d being its
\* temporary selections, f the store's filters and sa its Show Archived box
DialogFilters(d, f, sa) ==
  Some([apps |-> None, app_names |-> Some(d.tempSelectedAppNames),
        categories |-> Some(selectedCategoryIds(d.tempSelectedCategories)),
        users |-> Some(d.tempSelectedUsers), metadata |-> Some(d.metadataFilters),
        sortColumn |-> Some(f.sortColumn), sortDirection |-> Some(f.sortDirection),
        showArchived |-> Some(sa)])

\* an Apply that stores the app ids without their names
appliedFiltersNoNames(f, d) ==
  [f EXCEPT !.selectedApps = d.tempSelectedApps,
            !.selectedCategories = d.tempSelectedCategories,
            !.selectedUsers = d.tempSelectedUsers,
            !.metadataFilters = d.metadataFilters]

\* setSelectedApps, setSelectedAppNames, setSelectedCategories,
\* setSelectedUsers and setMetadataFilters with the temporary selections
appliedFilters(f, d) ==
  [f EXCEPT !.selectedApps = d.tempSelectedApps,
            !.selectedAppNames = d.tempSelectedAppNames,
            !.selectedCategories = d.tempSelectedCategories,
            !.selectedUsers = d.tempSelectedUsers,
            !.metadataFilters = d.metadataFilters]

\* memoriesSlice.clearSemanticSearch
clearSemanticSearch == [active |-> FALSE, query |-> ""]

\* FilterComponent.handleApplyFilters with the dialog's showArchived = sa: the
\* dialog closes, semantic search is cleared, the temporary selections are
\* stored, fetchMemories is called, and the changed filters make
\* MemoriesSection's effect run loadMemories
handleApplyFilters(sa) ==
  LET f == appliedFilters(filtersApps, dialog) IN
  /\ mounted
  /\ Len(inflight) + 2 <= MaxInFlight
  /\ dialog' = [dialog EXCEPT !.isOpen = FALSE, !.showArchived = sa]
  /\ semanticSearch' = clearSemanticSearch
  /\ filtersApps' = f
  /\ showArchived' = sa
  /\ secLoading' = TRUE
  /\ StartLoading({"FilterComponent", "MemoriesSection"})
  /\ inflight' =
       Dispatch(Dispatch(inflight,
                         FetchRequest("FilterComponent", FALSE, None, Some(1), Some(10),
                                      DialogFilters(dialog, filtersApps, sa), sa)),
                SectionRequest(search, currentPage, itemsPerPage, f, sa))
  /\ lastStep' = DialogStep("handleApplyFilters")
  /\ UNCHANGED <<formVars, toast, usersVars, serverVars, memories, detailVars, search, currentPage,
                 itemsPerPage, sectionVars, mounted>>

\* MemoryFilters.hasActiveFilters
hasActiveFilters ==
  \/ Len(filtersApps.selectedApps) > 0
  \/ Len(filtersApps.selectedCategories) > 0
  \/ Len(filtersApps.selectedUsers) > 0
  \/ DOMAIN filtersApps.metadataFilters # {}
  \/ showArchived
  \/ search # ""

\* filtersSlice.clearFilters, but for showArchived
clearFilters(f) ==
  [f EXCEPT !.selectedApps = <<>>, !.selectedCategories = <<>>,
            !.selectedUsers = <<>>, !.metadataFilters = <<>>]

\* MemoryFilters.handleClearAllFilters: clearFilters, the URL becomes /memories,
\* fetchMemories() is called without arguments, and the changed filters and
\* URL make MemoriesSection's effects run loadMemories
handleClearAllFilters ==
  LET f == clearFilters(filtersApps)
      rs == <<FetchRequest("MemoryFilters", FALSE, None, None, None, None, FALSE)>>
            \o Loads(semanticSearch.active,
                     SectionLoads("", DefaultPage, DefaultSize, f, FALSE)) IN
  /\ mounted
  /\ hasActiveFilters
  /\ Len(inflight) + Len(rs) <= MaxInFlight
  /\ filtersApps' = f
  /\ showArchived' = FALSE
  /\ search' = ""
  /\ currentPage' = DefaultPage
  /\ itemsPerPage' = DefaultSize
  /\ Loading({"MemoryFilters"}, Tail(rs))
  /\ inflight' = DispatchAll(inflight, rs)
  /\ lastStep' = Step("handleClearAllFilters", NoRequest)
  /\ UNCHANGED <<formVars, dialog, semanticSearch, toast, usersVars, serverVars, memories, detailVars,
                 sectionVars, mounted>>


\* store: state.apps.apps
Apps == <<[id |-> "app1", name |-> "A"], [id |-> "app2", name |-> "B"]>>

\* apps.find(a => a.id === appId)
FindApp(appId) ==
  IF \E k \in DOMAIN Apps : Apps[k].id = appId
  THEN Some(Apps[CHOOSE k \in DOMAIN Apps : Apps[k].id = appId])
  ELSE None

RECURSIVE Without(_, _)
\* prev.filter(x => x !== v)
Without(seq, v) ==
  IF seq = <<>> THEN <<>>
  ELSE IF Head(seq) = v THEN Without(Tail(seq), v)
       ELSE <<Head(seq)>> \o Without(Tail(seq), v)

\* prev.includes(v) ? prev.filter(x => x !== v) : [...prev, v]
Toggle(seq, v) == IF v \in Range(seq) THEN Without(seq, v) ELSE Append(seq, v)

\* FilterComponent.handleDialogChange(open): opening runs the open effect,
\* closing resets the temporary selections
handleDialogChange(open) ==
  /\ mounted
  /\ dialog.isOpen # open
  /\ dialog' = [tempsFromFilters(dialog, filtersApps, showArchived) EXCEPT !.isOpen = open]
  /\ lastStep' = DialogStep(IF open THEN "openDialog" ELSE "closeDialog")
  /\ UNCHANGED <<formVars, filtersApps, semanticSearch, toast, usersVars, serverVars, memories,
                 detailVars, filterVars, isLoading, error, sectionVars, secLoading, mounted,
                 inflight>>

\* a change of the temporary selections to d: every such handler dispatches
\* clearSemanticSearch, and when the search was active MemoriesSection's effect
\* runs loadMemories
dialogChange(op, d) ==
  LET rs == IF semanticSearch.active
            THEN <<SectionRequest(search, currentPage, itemsPerPage, filtersApps,
                                  showArchived)>>
            ELSE <<>> IN
  /\ mounted
  /\ dialog.isOpen
  /\ Len(inflight) + Len(rs) <= MaxInFlight
  /\ dialog' = d
  /\ semanticSearch' = clearSemanticSearch
  /\ Loading({}, rs)
  /\ inflight' = DispatchAll(inflight, rs)
  /\ lastStep' = DialogStep(op)
  /\ UNCHANGED <<formVars, filtersApps, toast, usersVars, serverVars, memories, detailVars, filterVars,
                 sectionVars, mounted>>

toggleAllApps(checked) ==
  dialogChange("toggleAllApps",
               IF checked
               THEN [dialog EXCEPT !.tempSelectedApps = [k \in DOMAIN Apps |-> Apps[k].id],
                                   !.tempSelectedAppNames = [k \in DOMAIN Apps |-> Apps[k].name]]
               ELSE [dialog EXCEPT !.tempSelectedApps = <<>>, !.tempSelectedAppNames = <<>>])

toggleAppFilter(appId) ==
  /\ IsSome(FindApp(appId))
  /\ dialogChange("toggleAppFilter",
                  [dialog EXCEPT !.tempSelectedApps = Toggle(@, appId),
                                 !.tempSelectedAppNames = Toggle(@, Get(FindApp(appId)).name)])

toggleAllCategories(checked) ==
  dialogChange("toggleAllCategories",
               [dialog EXCEPT !.tempSelectedCategories =
                  IF checked THEN [k \in DOMAIN Categories |-> Categories[k].name] ELSE <<>>])

toggleCategoryFilter(categoryName) ==
  dialogChange("toggleCategoryFilter",
               [dialog EXCEPT !.tempSelectedCategories = Toggle(@, categoryName)])

toggleAllUsers(checked) ==
  dialogChange("toggleAllUsers",
               [dialog EXCEPT !.tempSelectedUsers = IF checked THEN userDb ELSE <<>>])

toggleUserFilter(userId) ==
  dialogChange("toggleUserFilter",
               [dialog EXCEPT !.tempSelectedUsers = Toggle(@, userId)])

\* the Add Metadata Filter button with key topic and the value given
addMetadataFilter(value) ==
  /\ value # ""
  /\ dialogChange("addMetadataFilter", [dialog EXCEPT !.metadataFilters = [topic |-> value]])

\* the remove button of the metadata filter
removeMetadataFilter ==
  /\ DOMAIN dialog.metadataFilters # {}
  /\ dialogChange("removeMetadataFilter", [dialog EXCEPT !.metadataFilters = <<>>])

\* the Show Archived checkbox
toggleShowArchived(checked) ==
  dialogChange("toggleShowArchived", [dialog EXCEPT !.showArchived = checked])

\* FilterComponent.handleClearFilters: the temporary selections are emptied,
\* clearFilters is dispatched, fetchMemories() is called without arguments; the
\* changed filters make the open effect copy them to the temporary selections
\* and MemoriesSection's effect run loadMemories
handleClearFilters ==
  LET f == clearFilters(filtersApps)
      rs == <<FetchRequest("FilterComponent", FALSE, None, None, None, None, FALSE)>>
            \o Loads(semanticSearch.active,
                     <<SectionRequest(search, currentPage, itemsPerPage, f, FALSE)>>) IN
  /\ mounted
  /\ dialog.isOpen
  /\ Len(inflight) + Len(rs) <= MaxInFlight
  /\ filtersApps' = f
  /\ showArchived' = FALSE
  /\ dialog' = tempsFromFilters(dialog, f, FALSE)
  /\ Loading({"FilterComponent"}, Tail(rs))
  /\ inflight' = DispatchAll(inflight, rs)
  /\ lastStep' = Step("handleClearFilters", NoRequest)
  /\ UNCHANGED <<formVars, semanticSearch, toast, usersVars, serverVars, memories, detailVars, search,
                 currentPage, itemsPerPage, sectionVars, mounted>>

\* filtersSlice.setSortingState({column, direction}), and MemoriesSection's
\* effect on the changed filters
setSortingState(column, direction) ==
  LET f == [filtersApps EXCEPT !.sortColumn = column, !.sortDirection = direction]
      rs == Loads(semanticSearch.active,
                  <<SectionRequest(search, currentPage, itemsPerPage, f, showArchived)>>) IN
  /\ mounted
  /\ Len(inflight) + Len(rs) <= MaxInFlight
  /\ filtersApps' = f
  /\ Loading({}, rs)
  /\ inflight' = DispatchAll(inflight, rs)
  /\ lastStep' = Step("setSortingState", NoRequest)
  /\ UNCHANGED <<formVars, dialog, semanticSearch, toast, usersVars, serverVars, memories, detailVars,
                 filterVars, sectionVars, mounted>>

\* useMemoriesApi.fetchMemories(query, page, size, filters) called directly: up to the await
fetchMemories(query, page, size, filters) ==
  /\ Len(inflight) < MaxInFlight /\ Len(inflight) <= MaxOverlap
  /\ StartLoading({"FilterComponent"})
  /\ inflight' =
       Dispatch(inflight,
                FetchRequest("FilterComponent", FALSE, query, page, size, filters,
                             Field(filters, "showArchived") = Some(TRUE)))
  /\ lastStep' = Step("fetchMemories", NoRequest)
  /\ UNCHANGED <<uiVars, serverVars, memories, detailVars, filterVars, sectionVars, secLoading, mounted>>

\* useMemoriesApi.updateMemoryState(ids, s), called by MemoryFilters'
\* handlePauseSelected / handleResumeSelected / handleArchiveSelected: up to the await
updateMemoryState(ids, s) ==
  IF ids = {} THEN UNCHANGED vars
  ELSE
    /\ mounted
    /\ Len(inflight) < MaxInFlight /\ Len(inflight) <= MaxOverlap
    /\ StartLoading({"MemoryFilters"})
    /\ inflight' =
         Dispatch(inflight,
                  Request("update", "MemoryFilters", FALSE, updateStateBody(ids, s),
                          ids, s, memories, selectedMemory,
                          inflight = <<>> /\ lastStep = Step("updateMemoryStateOk",
                                                            [ids |-> ids, state |-> s, alone |-> TRUE])))
      /\ lastStep' = Step("updateMemoryState", NoRequest)
    /\ UNCHANGED <<uiVars, serverVars, memories, detailVars, filterVars, sectionVars, secLoading, mounted>>

handlePauseSelected(ids) == updateMemoryState(ids, "paused")
handleResumeSelected(ids) == updateMemoryState(ids, "active")
handleArchiveSelected(ids) == updateMemoryState(ids, "archived")

\* useMemoriesApi.deleteMemories(ids), called by handleDeleteSelected: up to the await
deleteMemories(ids) ==
  /\ mounted
  /\ Len(inflight) < MaxInFlight /\ Len(inflight) <= MaxOverlap
  /\ inflight' =
       Dispatch(inflight,
                Request("delete", "MemoryFilters", FALSE, deleteBody(ids), ids, "deleted",
                        memories, selectedMemory, FALSE))
  /\ lastStep' = Step("deleteMemories", NoRequest)
  /\ UNCHANGED <<uiVars, serverVars, memories, detailVars, filterVars, isLoading, error,
                 sectionVars, secLoading, mounted>>

\* fetchMemoryById / fetchAccessLogs / fetchRelatedMemories: up to the await;
\* id 0 stands for the empty identifier, on which they return at once
detailFetch(kind, id) ==
  IF id = 0 THEN UNCHANGED vars
  ELSE
    /\ Len(inflight) < MaxInFlight /\ Len(inflight) <= MaxOverlap
    /\ StartLoading({"Navbar"})
    /\ inflight' =
         Dispatch(inflight,
                  Request(kind, "Navbar", FALSE, NoBody, {id}, "active", <<>>, None, FALSE))
      /\ lastStep' = Step(kind, NoRequest)
    /\ UNCHANGED <<uiVars, serverVars, memories, detailVars, filterVars, sectionVars, secLoading, mounted>>

fetchMemoryById(id) == detailFetch("byId", id)
fetchAccessLogs(id) == detailFetch("logs", id)
fetchRelatedMemories(id) == detailFetch("related", id)

\* useUsersApi.fetchUsers: up to the await
fetchUsers ==
  /\ Len(inflight) < MaxInFlight /\ Len(inflight) <= MaxOverlap
  /\ StartLoading({"UsersSection"})
  /\ inflight' =
       Dispatch(inflight,
                Request("users", "UsersSection", FALSE, NoBody, {}, "active", <<>>, None, FALSE))
  /\ lastStep' = Step("fetchUsers", NoRequest)
  /\ UNCHANGED <<uiVars, serverVars, memories, detailVars, filterVars, sectionVars, secLoading, mounted>>

\* ---------------------------------------------------------- notifications
\* toast.error(message) / toast.success(message)
Toast(type, message) == Some([type |-> type, message |-> message])

\* the notification is dismissed or times out
dismissToast ==
  /\ IsSome(toast)
  /\ toast' = None
  /\ lastStep' = Step("dismissToast", NoRequest)
  /\ UNCHANGED <<formVars, filtersApps, dialog, semanticSearch, usersVars, serverVars, memories,
                 detailVars, filterVars, isLoading, error, sectionVars, secLoading, mounted,
                 inflight>>

\* ----------------------------------------------------------- user creation
\* String.prototype.trim on the texts typed
trim(text) == IF text = " " THEN "" ELSE text

\* the Create User dialog is opened
createUserSetOpen ==
  /\ ~createUserDialog.open
  /\ createUserDialog.route = "/users"
  /\ createUserDialog' = [createUserDialog EXCEPT !.open = TRUE]
  /\ lastStep' = Step("createUserSetOpen", NoRequest)
  /\ UNCHANGED <<formVars, filtersApps, dialog, semanticSearch, toast, userDb, dialogUsers, serverVars,
                 memories, detailVars, filterVars, isLoading, error, sectionVars, secLoading,
                 mounted, inflight>>

\* the User ID input is edited
typeUserId(text) ==
  /\ createUserDialog.open
  /\ text # createUserDialog.userId
  /\ createUserDialog' = [createUserDialog EXCEPT !.userId = text]
  /\ lastStep' = Step("typeUserId", NoRequest)
  /\ UNCHANGED <<formVars, filtersApps, dialog, semanticSearch, toast, userDb, dialogUsers, serverVars,
                 memories, detailVars, filterVars, isLoading, error, sectionVars, secLoading,
                 mounted, inflight>>

\* CreateUserDialog.handleCreateUser and useUsersApi.createUser up to the await
handleCreateUser ==
  LET userId == trim(createUserDialog.userId) IN
  /\ createUserDialog.open
  /\ ~isLoading["CreateUserDialog"]
  /\ IF userId = ""
     THEN /\ toast' = Toast("error", "User ID is required")
          /\ UNCHANGED <<isLoading, error, inflight>>
     ELSE /\ Len(inflight) < MaxInFlight
          /\ StartLoading({"CreateUserDialog"})
          /\ inflight' =
               Dispatch(inflight,
                        Request("createUser", "CreateUserDialog", FALSE, [user_id |-> userId],
                                {}, "active", <<>>, None, FALSE))
          /\ UNCHANGED toast
  /\ lastStep' = Step("handleCreateUser", NoRequest)
  /\ UNCHANGED <<formVars, filtersApps, dialog, semanticSearch, usersVars, serverVars, memories,
                 detailVars, filterVars, sectionVars, secLoading, mounted>>

\* --------------------------------------------------------- memory creation
\* CreateMemoryDialog.handleOpenChange(newOpen)
handleOpenChange(newOpen) ==
  /\ newOpen # createMemoryDialog.open
  /\ createMemoryDialog' = [createMemoryDialog EXCEPT !.open = newOpen]
  /\ lastStep' = Step("handleOpenChange", NoRequest)
  /\ UNCHANGED <<filtersApps, dialog, semanticSearch, toast, usersVars, searchDialog,
                 serverVars, memories, detailVars, filterVars, isLoading, error, sectionVars,
                 secLoading, mounted, inflight>>

\* the Custom Metadata textarea: setMetadataText(text); setMetadataError("")
setMetadataText(text) ==
  /\ createMemoryDialog.open
  /\ text # createMemoryDialog.metadataText
  /\ createMemoryDialog' = [createMemoryDialog EXCEPT !.metadataText = text,
                                                      !.metadataError = ""]
  /\ lastStep' = Step("setMetadataText", NoRequest)
  /\ UNCHANGED <<filtersApps, dialog, semanticSearch, toast, usersVars, searchDialog,
                 serverVars, memories, detailVars, filterVars, isLoading, error, sectionVars,
                 secLoading, mounted, inflight>>

\* a parser that accepts any text
JSONparseLenient(text) == [ok |-> TRUE, value |-> <<>>]

\* JSON.parse on the texts typed: the value, or a SyntaxError (ok = FALSE)
JSONparse(text) ==
  CASE text = "{}" -> [ok |-> TRUE, value |-> <<>>]
    [] text = "{\"topic\": \"x\"}" -> [ok |-> TRUE, value |-> [topic |-> "x"]]
    [] OTHER -> [ok |-> FALSE, value |-> <<>>]

\* the memories created: a bound on the server's growing list
MaxCreated == 1

\* CreateMemoryDialog.handleCreateMemory(text) and useMemoriesApi.createMemory
\* up to the await; the profile's user is the one selected
handleCreateMemory(text) ==
  LET given == trim(createMemoryDialog.metadataText) # ""
      parsed == JSONparse(createMemoryDialog.metadataText) IN
  /\ createMemoryDialog.open
  /\ IF given /\ ~parsed.ok
     THEN /\ createMemoryDialog' =
               [createMemoryDialog EXCEPT !.metadataError = "Invalid JSON format"]
          /\ UNCHANGED inflight
     ELSE /\ Len(inflight) < MaxInFlight
          /\ Len(createdMemories)
               + Cardinality({k \in DOMAIN inflight : inflight[k].kind = "createMemory"})
             < MaxCreated
          /\ createMemoryDialog' =
               IF given THEN [createMemoryDialog EXCEPT !.metadataError = ""]
               ELSE createMemoryDialog
          /\ inflight' =
               Dispatch(inflight,
                        Request("createMemory", "CreateMemoryDialog", FALSE,
                                [user_id |-> "u1", text |-> text, infer |-> FALSE,
                                 app |-> "openmemory",
                                 metadata |-> IF given THEN parsed.value ELSE <<>>],
                                {}, "active", <<>>, None, FALSE))
  /\ lastStep' = Step("handleCreateMemory", NoRequest)
  /\ UNCHANGED <<filtersApps, dialog, semanticSearch, toast, usersVars, searchDialog,
                 serverVars, memories, detailVars, filterVars, isLoading, error, sectionVars,
                 secLoading, mounted>>

\* ---------------------------------------------------------- semantic search
\* the Semantic Search dialog is opened or closed (onOpenChange = setOpen)
searchSetOpen(open) ==
  /\ mounted
  /\ open # searchDialog.open
  /\ searchDialog' = [searchDialog EXCEPT !.open = open]
  /\ lastStep' = Step("searchSetOpen", NoRequest)
  /\ UNCHANGED <<filtersApps, dialog, semanticSearch, toast, usersVars, createMemoryDialog,
                 serverVars, memories, detailVars, filterVars, isLoading, error, sectionVars,
                 secLoading, mounted, inflight>>

\* a step of the open dialog that only changes its local state
searchDialogChange(op, d) ==
  /\ searchDialog.open
  /\ d # searchDialog
  /\ searchDialog' = d
  /\ lastStep' = Step(op, NoRequest)
  /\ UNCHANGED <<filtersApps, dialog, semanticSearch, toast, usersVars, createMemoryDialog,
                 serverVars, memories, detailVars, filterVars, isLoading, error, sectionVars,
                 secLoading, mounted, inflight>>

\* the Search Query textarea: setQuery(text)
setQuery(text) == searchDialogChange("setQuery", [searchDialog EXCEPT !.query = text])

\* a "search all" checkbox that forgets to empty the specific selection
selectAllKeepsList(checked, list) == list

\* the "search all" checkboxes: checking one empties the specific selection
selectAllChange(checked, list) == IF checked THEN <<>> ELSE list

\* the "Search all users" checkbox
selectAllUsersChange(checked) ==
  searchDialogChange("selectAllUsersChange",
                     [searchDialog EXCEPT !.selectAllUsers = checked,
                                          !.selectedUsers = selectAllChange(checked, @)])

\* the checkbox of one user, or the X of its badge; both are rendered only
\* while "Search all users" is off, the X only for a selected user
searchUserChange(userId, checked) ==
  /\ ~searchDialog.selectAllUsers
  /\ checked = (userId \notin Range(searchDialog.selectedUsers))
  /\ searchDialogChange("searchUserChange",
                        [searchDialog EXCEPT !.selectedUsers =
                           IF checked THEN Append(@, userId) ELSE Without(@, userId)])

\* the "Search all clients/agents" checkbox
selectAllAppsChange(checked) ==
  searchDialogChange("selectAllAppsChange",
                     [searchDialog EXCEPT !.selectAllApps = checked,
                                          !.selectedApps = selectAllChange(checked, @)])

\* the checkbox of one app, or the X of its badge
searchAppChange(appId, checked) ==
  /\ ~searchDialog.selectAllApps
  /\ checked = (appId \notin Range(searchDialog.selectedApps))
  /\ searchDialogChange("searchAppChange",
                        [searchDialog EXCEPT !.selectedApps =
                           IF checked THEN Append(@, appId) ELSE Without(@, appId)])

\* SearchMemoriesDialog.handleReset
handleReset ==
  searchDialogChange("handleReset",
                     [searchDialog EXCEPT !.query = "", !.selectedUsers = <<>>,
                                          !.selectedApps = <<>>, !.threshold = 0, !.limit = 10,
                                          !.selectAllUsers = TRUE, !.selectAllApps = TRUE])

\* the body handleSearch posts to /memories/search
searchRequestBody(d) ==
  [query |-> d.query, limit |-> d.limit, threshold |-> d.threshold,
   user_ids |-> IF ~d.selectAllUsers /\ d.selectedUsers # <<>>
                THEN Some(d.selectedUsers) ELSE None,
   app_ids |-> IF ~d.selectAllApps /\ d.selectedApps # <<>>
               THEN Some(d.selectedApps) ELSE None]

\* SearchMemoriesDialog.handleSearch: up to the await
handleSemanticSearch ==
  /\ mounted
  /\ searchDialog.open
  /\ IF trim(searchDialog.query) = ""
     THEN /\ toast' = Toast("error", "Please enter a search query")
          /\ UNCHANGED <<isLoading, error, inflight>>
     ELSE /\ Len(inflight) < MaxInFlight
          /\ isLoading' = [isLoading EXCEPT !["SearchMemoriesDialog"] = TRUE]
          /\ inflight' =
               Dispatch(inflight,
                        Request("search", "SearchMemoriesDialog", FALSE,
                                searchRequestBody(searchDialog),
                                {}, "active", <<>>, None, FALSE))
          /\ UNCHANGED <<toast, error>>
  /\ lastStep' = Step("handleSemanticSearch", NoRequest)
  /\ UNCHANGED <<formVars, filtersApps, dialog, semanticSearch, usersVars, serverVars, memories,
                 detailVars, filterVars, sectionVars, secLoading, mounted>>

\* SearchMemoriesDialog.handleClearSearch: clearSemanticSearch, then GET
\* /memories; the cleared search makes MemoriesSection's effect run loadMemories
handleClearSearch ==
  LET rs == <<Request("listAll", "SearchMemoriesDialog", FALSE, NoBody, {}, "active", <<>>,
                      None, FALSE),
              SectionRequest(search, currentPage, itemsPerPage, filtersApps, showArchived)>> IN
  /\ mounted
  /\ semanticSearch.active
  /\ Len(inflight) + Len(rs) <= MaxInFlight
  /\ semanticSearch' = clearSemanticSearch
  /\ Loading({}, Tail(rs))
  /\ inflight' = DispatchAll(inflight, rs)
  /\ lastStep' = Step("handleClearSearch", NoRequest)
  /\ UNCHANGED <<formVars, filtersApps, dialog, toast, usersVars, serverVars, memories, detailVars,
                 filterVars, sectionVars, mounted>>

\* ------------------------------------------------------- server processing
AccessLogOf(m) == <<m>>
RelatedOf(d, m) == SeqFilter(Ordered(d, NoBody, NumMem), {m})

Reply(d, r) ==
  CASE r.kind = "fetch" -> ServerFilter(d, r.body)
    [] r.kind = "byId" -> [items |-> <<ServerGet(d, CHOOSE m \in r.ids : TRUE)>>, total |-> 1, pages |-> 1]
    [] r.kind = "logs" -> [items |-> AccessLogOf(CHOOSE m \in r.ids : TRUE), total |-> 1, pages |-> 1]
    [] r.kind = "related" -> [items |-> RelatedOf(d, CHOOSE m \in r.ids : TRUE), total |-> 0, pages |-> 0]
    [] r.kind \in {"users", "usersRefresh"} ->
         [items |-> userDb, total |-> Len(userDb), pages |-> 1]
    [] r.kind = "search" ->
         [items |-> Ordered(d, [NoBody EXCEPT !.search_query = Some(r.body.query),
                                              !.user_ids = r.body.user_ids,
                                              !.app_ids = r.body.app_ids], NumMem),
          total |-> 0, pages |-> 0]
    [] r.kind = "listAll" -> [items |-> Ordered(d, NoBody, NumMem), total |-> 0, pages |-> 0]
    [] OTHER -> EmptyResult

\* POST /users/ is refused with Conflict when the identifier exists
Conflict(r) == r.kind = "createUser" /\ r.body.user_id \in Range(userDb)

\* the server handles request i and answers
serverOk(i) ==
  LET r == inflight[i] IN
  /\ r.phase = "sent"
  /\ r.kind \in {"byId", "logs", "related"} => r.ids \subseteq MemIds
  /\ db' = CASE r.kind = "update" -> ServerUpdateState(db, r.body.memory_ids, r.body.state)
             [] r.kind = "delete" -> ServerDelete(db, r.body.memory_ids)
             [] OTHER -> db
  /\ lastTarget' = IF r.kind \in {"update", "delete"}
                   THEN [m \in MemIds |-> IF m \in r.ids THEN r.state ELSE lastTarget[m]]
                   ELSE lastTarget
  /\ userDb' = IF r.kind = "createUser" /\ ~Conflict(r)
               THEN Append(userDb, r.body.user_id) ELSE userDb
  /\ createdMemories' = IF r.kind = "createMemory"
                        THEN Append(createdMemories, r.body) ELSE createdMemories
  /\ inflight' = [inflight EXCEPT ![i] =
                    IF Conflict(r)
                    THEN [r EXCEPT !.phase = "err", !.detail = Some("Conflict")]
                    ELSE [r EXCEPT !.phase = "ok", !.result = Reply(db, r)]]
  /\ lastStep' = Step("serverOk", r)
  /\ UNCHANGED <<formVars, filtersApps, dialog, semanticSearch, toast, createUserDialog, dialogUsers,
                 memories, detailVars, filterVars, isLoading, error, sectionVars,
                 secLoading, mounted>>

\* the request fails (network or server error): nothing is applied
serverFail(i) ==
  LET r == inflight[i] IN
  /\ r.phase = "sent"
  /\ inflight' = [inflight EXCEPT ![i] = [r EXCEPT !.phase = "err"]]
  /\ lastStep' = Step("serverFail", r)
  /\ UNCHANGED <<uiVars, serverVars, memories, detailVars, filterVars, isLoading, error, sectionVars,
                 secLoading, mounted>>


\* --------------------------------------------------------------- responses
\* setIsLoading(false)
StopLoading(h) ==
  /\ isLoading' = [isLoading EXCEPT ![h] = FALSE]
  /\ UNCHANGED error

\* catch: setError(errorMessage); setIsLoading(false); throw
Failed(h) ==
  /\ error' = [error EXCEPT ![h] = Some("failed")]
  /\ isLoading' = [isLoading EXCEPT ![h] = FALSE]

Done(i, op) ==
  /\ inflight' = Remove(inflight, i)
  /\ lastStep' = Step(op, inflight[i])

\* fetchMemories after the await, and loadMemories after it when it was the caller
fetchMemoriesOk(i) ==
  LET r == inflight[i] IN
  /\ r.kind = "fetch" /\ r.phase = "ok"
  /\ StopLoading(r.hook)
  /\ memories' = adaptedMemories(r.result.items)
  /\ IF r.section
     THEN /\ secMemories' = adaptedMemories(r.result.items)
          /\ totalItems' = r.result.total
          /\ totalPages' = r.result.pages
          /\ secLoading' = FALSE
     ELSE UNCHANGED <<sectionVars, secLoading>>
  /\ Done(i, "fetchMemoriesOk")
  /\ UNCHANGED <<uiVars, serverVars, detailVars, filterVars, mounted>>

\* a catch that clears the store's list
fetchMemoriesFailedClears(i) ==
  LET r == inflight[i] IN
  /\ r.kind = "fetch" /\ r.phase = "err"
  /\ Failed(r.hook)
  /\ memories' = <<>>
  /\ secLoading' = IF r.section THEN FALSE ELSE secLoading
  /\ Done(i, "fetchMemoriesFailed")
  /\ UNCHANGED <<uiVars, serverVars, detailVars, filterVars, sectionVars, mounted>>

\* fetchMemories' catch, and loadMemories' catch when it was the caller
fetchMemoriesFailed(i) ==
  LET r == inflight[i] IN
  /\ r.kind = "fetch" /\ r.phase = "err"
  /\ Failed(r.hook)
  /\ secLoading' = IF r.section THEN FALSE ELSE secLoading
  /\ Done(i, "fetchMemoriesFailed")
  /\ UNCHANGED <<uiVars, serverVars, memories, detailVars, filterVars, sectionVars, mounted>>

\* updateMemoryState after the await
updateMemoryStateOk(i) ==
  LET r == inflight[i] IN
  /\ r.kind = "update" /\ r.phase = "ok"
  /\ StopLoading(r.hook)
  /\ memories' = updateMemoryStateList(r.capMemories, r.ids, r.state)
  /\ selectedMemory' = updateMemoryStateSelected(selectedMemory, r.capSelected, r.ids, r.state)
  /\ Done(i, "updateMemoryStateOk")
  /\ UNCHANGED <<uiVars, serverVars, accessLogs, relatedMemories, users, filterVars, sectionVars,
                 secLoading, mounted>>

\* updateMemoryState's catch
updateMemoryStateFailed(i) ==
  LET r == inflight[i] IN
  /\ r.kind = "update" /\ r.phase = "err"
  /\ Failed(r.hook)
  /\ Done(i, "updateMemoryStateFailed")
  /\ UNCHANGED <<uiVars, serverVars, memories, detailVars, filterVars, sectionVars, secLoading, mounted>>

\* deleteMemories after the await
deleteMemoriesOk(i) ==
  LET r == inflight[i] IN
  /\ r.kind = "delete" /\ r.phase = "ok"
  /\ memories' = deleteMemoriesList(r.capMemories, r.ids)
  /\ Done(i, "deleteMemoriesOk")
  /\ UNCHANGED <<uiVars, serverVars, detailVars, filterVars, isLoading, error, sectionVars,
                 secLoading, mounted>>

\* deleteMemories' catch
deleteMemoriesFailed(i) ==
  LET r == inflight[i] IN
  /\ r.kind = "delete" /\ r.phase = "err"
  /\ Failed(r.hook)
  /\ Done(i, "deleteMemoriesFailed")
  /\ UNCHANGED <<uiVars, serverVars, memories, detailVars, filterVars, sectionVars, secLoading, mounted>>

\* fetchMemoryById / fetchAccessLogs / fetchRelatedMemories / fetchUsers after the await
detailOk(i) ==
  LET r == inflight[i] IN
  /\ r.kind \in {"byId", "logs", "related", "users"} /\ r.phase = "ok"
  /\ StopLoading(r.hook)
  /\ selectedMemory' = IF r.kind = "byId" THEN Some(r.result.items[1]) ELSE selectedMemory
  /\ accessLogs' = IF r.kind = "logs" THEN r.result.items ELSE accessLogs
  /\ relatedMemories' = IF r.kind = "related" THEN adaptedMemories(r.result.items)
                        ELSE relatedMemories
  /\ users' = IF r.kind = "users" THEN r.result.items ELSE users
  /\ Done(i, "detailOk")
  /\ UNCHANGED <<uiVars, serverVars, memories, filterVars, sectionVars, secLoading, mounted>>

\* their catch
detailFailed(i) ==
  LET r == inflight[i] IN
  /\ r.kind \in {"byId", "logs", "related", "users"} /\ r.phase = "err"
  /\ Failed(r.hook)
  /\ Done(i, "detailFailed")
  /\ UNCHANGED <<uiVars, serverVars, memories, detailVars, filterVars, sectionVars, secLoading, mounted>>

\* a catch that drops the server's detail
errorMessageGeneric(r) == "failed"

\* the message of a failed call: err.response?.data?.detail || err.message
errorMessage(r) == IF IsSome(r.detail) THEN Get(r.detail) ELSE "failed"

\* createUser after the await: setIsLoading(false), then fetchUsers up to its await
createUserOk(i) ==
  LET r == inflight[i] IN
  /\ r.kind = "createUser" /\ r.phase = "ok"
  /\ StartLoading({r.hook})
  /\ inflight' = Dispatch(Remove(inflight, i),
                          Request("usersRefresh", r.hook, FALSE, r.body, {}, "active", <<>>,
                                  None, FALSE))
  /\ lastStep' = Step("createUserOk", r)
  /\ UNCHANGED <<uiVars, serverVars, memories, detailVars, filterVars, sectionVars,
                 secLoading, mounted>>

\* createUser's catch, and handleCreateUser's catch after it
createUserFailed(i) ==
  LET r == inflight[i] IN
  /\ r.kind = "createUser" /\ r.phase = "err"
  /\ error' = [error EXCEPT ![r.hook] = Some(errorMessage(r))]
  /\ isLoading' = [isLoading EXCEPT ![r.hook] = FALSE]
  /\ toast' = Toast("error", errorMessage(r))
  /\ Done(i, "createUserFailed")
  /\ UNCHANGED <<formVars, filtersApps, dialog, semanticSearch, usersVars, serverVars, memories,
                 detailVars, filterVars, sectionVars, secLoading, mounted>>

\* fetchUsers after the await inside createUser, createUser's return, and the
\* rest of handleCreateUser: the inputs are cleared, the dialog closes and the
\* router goes to /memories
usersRefreshOk(i) ==
  LET r == inflight[i] IN
  /\ r.kind = "usersRefresh" /\ r.phase = "ok"
  /\ StopLoading(r.hook)
  /\ dialogUsers' = r.result.items
  /\ toast' = Toast("success", "created")
  /\ createUserDialog' = [open |-> FALSE, userId |-> "", route |-> "/memories"]
  /\ Done(i, "usersRefreshOk")
  /\ UNCHANGED <<formVars, filtersApps, dialog, semanticSearch, userDb, serverVars, memories, detailVars,
                 filterVars, sectionVars, secLoading, mounted>>

\* fetchUsers' catch inside createUser, createUser's catch, handleCreateUser's catch
usersRefreshFailed(i) ==
  LET r == inflight[i] IN
  /\ r.kind = "usersRefresh" /\ r.phase = "err"
  /\ Failed(r.hook)
  /\ toast' = Toast("error", "failed")
  /\ Done(i, "usersRefreshFailed")
  /\ UNCHANGED <<formVars, filtersApps, dialog, semanticSearch, usersVars, serverVars, memories,
                 detailVars, filterVars, sectionVars, secLoading, mounted>>

\* handleCreateMemory after the await: the success notification, the dialog
\* closed and cleared, and Navbar's onMemoryCreated: away from /memories the
\* router goes there; on /memories window.location.reload() starts the page
\* anew, with the URL kept and the responses still awaited never delivered
createMemoryOk(i) ==
  LET r == inflight[i] IN
  /\ r.kind = "createMemory" /\ r.phase = "ok"
  /\ lastStep' = Step("createMemoryOk", r)
  /\ createMemoryDialog' = [open |-> FALSE, metadataText |-> "", metadataError |-> ""]
  /\ IF mounted
     THEN /\ inflight' = <<>>
          /\ toast' = None
          /\ memories' = <<>> /\ selectedMemory' = None /\ accessLogs' = <<>>
          /\ relatedMemories' = <<>> /\ users' = <<>>
          /\ showArchived' = FALSE
          /\ isLoading' = [h \in Hooks |-> FALSE] /\ error' = [h \in Hooks |-> None]
          /\ secMemories' = <<>> /\ totalItems' = 0 /\ totalPages' = 0
          /\ secLoading' = FALSE /\ mounted' = FALSE
          /\ filtersApps' = initialFilters /\ dialog' = initialDialog
          /\ semanticSearch' = clearSemanticSearch
          /\ createUserDialog' = [open |-> FALSE, userId |-> "", route |-> "/memories"]
          /\ dialogUsers' = <<>>
          /\ searchDialog' = [open |-> FALSE, query |-> "", selectedUsers |-> <<>>,
                              selectedApps |-> <<>>, threshold |-> 0, limit |-> 10,
                              selectAllUsers |-> TRUE, selectAllApps |-> TRUE]
          /\ UNCHANGED <<serverVars, userDb, search, currentPage, itemsPerPage>>
     ELSE /\ inflight' = Remove(inflight, i)
          /\ toast' = Toast("success", "Memory created successfully")
          /\ createUserDialog' = [createUserDialog EXCEPT !.route = "/memories"]
          /\ UNCHANGED <<filtersApps, dialog, semanticSearch, userDb, dialogUsers, searchDialog,
                         serverVars, memories, detailVars, filterVars, isLoading, error,
                         sectionVars, secLoading, mounted>>

\* createMemory's catch and handleCreateMemory's catch
createMemoryFailed(i) ==
  LET r == inflight[i] IN
  /\ r.kind = "createMemory" /\ r.phase = "err"
  /\ Failed(r.hook)
  /\ toast' = Toast("error", "failed")
  /\ Done(i, "createMemoryFailed")
  /\ UNCHANGED <<formVars, filtersApps, dialog, semanticSearch, usersVars, serverVars, memories,
                 detailVars, filterVars, sectionVars, secLoading, mounted>>

\* SearchMemoriesDialog.handleSearch after the await: the result is stored,
\* semantic search becomes active, the dialog's isLoading is cleared
semanticSearchOk(i) ==
  LET r == inflight[i] IN
  /\ r.kind = "search" /\ r.phase = "ok"
  /\ memories' = adaptedMemories(r.result.items)
  /\ semanticSearch' = [active |-> TRUE, query |-> r.body.query]
  /\ toast' = Toast("success", "found")
  /\ searchDialog' = [searchDialog EXCEPT !.open = FALSE]
  /\ StopLoading(r.hook)
  /\ Done(i, "semanticSearchOk")
  /\ UNCHANGED <<createMemoryDialog, filtersApps, dialog, usersVars, serverVars, detailVars, filterVars,
                 sectionVars, secLoading, mounted>>

\* a catch that also closes the dialog
semanticSearchFailedCloses(i) ==
  LET r == inflight[i] IN
  /\ r.kind = "search" /\ r.phase = "err"
  /\ toast' = Toast("error", "Failed to search memories")
  /\ searchDialog' = [searchDialog EXCEPT !.open = FALSE]
  /\ StopLoading(r.hook)
  /\ Done(i, "semanticSearchFailed")
  /\ UNCHANGED <<createMemoryDialog, filtersApps, dialog, semanticSearch, usersVars, serverVars,
                 memories, detailVars, filterVars, sectionVars, secLoading, mounted>>

\* SearchMemoriesDialog.handleSearch's catch and finally
semanticSearchFailed(i) ==
  LET r == inflight[i] IN
  /\ r.kind = "search" /\ r.phase = "err"
  /\ toast' = Toast("error", "Failed to search memories")
  /\ StopLoading(r.hook)
  /\ Done(i, "semanticSearchFailed")
  /\ UNCHANGED <<formVars, filtersApps, dialog, semanticSearch, usersVars, serverVars, memories,
                 detailVars, filterVars, sectionVars, secLoading, mounted>>

\* SearchMemoriesDialog.handleClearSearch after the await
listAllOk(i) ==
  LET r == inflight[i] IN
  /\ r.kind = "listAll" /\ r.phase = "ok"
  /\ memories' = adaptedMemories(r.result.items)
  /\ toast' = Toast("success", "Cleared semantic search")
  /\ Done(i, "listAllOk")
  /\ UNCHANGED <<formVars, filtersApps, dialog, semanticSearch, usersVars, serverVars, detailVars,
                 filterVars, isLoading, error, sectionVars, secLoading, mounted>>

\* SearchMemoriesDialog.handleClearSearch's catch
listAllFailed(i) ==
  LET r == inflight[i] IN
  /\ r.kind = "listAll" /\ r.phase = "err"
  /\ toast' = Toast("error", "Failed to clear semantic search")
  /\ Done(i, "listAllFailed")
  /\ UNCHANGED <<formVars, filtersApps, dialog, semanticSearch, usersVars, serverVars, memories,
                 detailVars, filterVars, isLoading, error, sectionVars, secLoading, mounted>>

\* ---------------------------------------------------------- specifications
ListResponse(i) ==
  \/ updateMemoryStateOk(i)
  \/ updateMemoryStateFailed(i)
  \/ deleteMemoriesOk(i)
  \/ deleteMemoriesFailed(i)

\* the memory lifecycle and the listing: bulk state changes and deletes, the
\* detail view, and list loads under the stored filters
Next ==
  \/ mount
  \/ \E sa \in BOOLEAN : handleApplyFilters(sa)
  \/ \E ids \in Selections : handlePauseSelected(ids)
  \/ \E ids \in Selections : handleResumeSelected(ids)
  \/ \E ids \in Selections : handleArchiveSelected(ids)
  \/ \E ids \in Selections : deleteMemories(ids)
  \/ \E id \in DetailIds \cap MemIds : fetchMemoryById(id)
  \/ \E i \in DOMAIN inflight : serverOk(i)
  \/ \E i \in DOMAIN inflight : inflight[i].kind \in {"update", "delete"} /\ serverFail(i)
  \/ \E i \in DOMAIN inflight : fetchMemoriesOk(i)
  \/ \E i \in DOMAIN inflight : ListResponse(i)
  \/ \E i \in DOMAIN inflight : detailOk(i)

Spec == Init /\ [][Next]_vars

\* the background fetches and their failures
NextFetch ==
  \/ mount
  \/ \E q \in Queries : handleSearch(q)
  \/ fetchUsers
  \/ \E id \in DetailIds : fetchMemoryById(id)
  \/ \E id \in DetailIds : fetchAccessLogs(id)
  \/ \E id \in DetailIds : fetchRelatedMemories(id)
  \/ \E i \in DOMAIN inflight : serverOk(i)
  \/ \E i \in DOMAIN inflight : serverFail(i)
  \/ \E i \in DOMAIN inflight : fetchMemoriesOk(i)
  \/ \E i \in DOMAIN inflight : fetchMemoriesFailed(i)
  \/ \E i \in DOMAIN inflight : detailOk(i)
  \/ \E i \in DOMAIN inflight : detailFailed(i)

SpecFetch == Init /\ [][NextFetch]_vars

\* the list loads racing each other, over any server content
InitRace ==
  /\ db \in [MemIds -> {Transition(s) : s \in States}]
  /\ userDb = ServerUsers
  /\ createdMemories = <<>>
  /\ InitClient

NextRace ==
  \/ mount
  \/ \E q \in Queries : handleSearch(q)
  \/ \E sa \in BOOLEAN : handleApplyFilters(sa)
  \/ handleClearAllFilters
  \/ \E i \in DOMAIN inflight : serverOk(i)
  \/ \E i \in DOMAIN inflight : serverFail(i)
  \/ \E i \in DOMAIN inflight : fetchMemoriesOk(i)
  \/ \E i \in DOMAIN inflight : fetchMemoriesFailed(i)

SpecRace == InitRace /\ [][NextRace]_vars

\* the filter request built from any arguments
ListArgs(v) == {None, Some(<<>>), Some(<<v>>)}
MapArgs == {None, Some(<<>>), Some([topic |-> "x"])}
FilterArgs ==
  {None} \cup
  {Some([apps |-> a, app_names |-> n, categories |-> c, users |-> u, metadata |-> md,
         sortColumn |-> sc, sortDirection |-> sd, showArchived |-> sh]) :
     a \in ListArgs("app1"), n \in ListArgs("A"), c \in ListArgs("c1"), u \in ListArgs("u1"),
     md \in MapArgs, sc \in {None, Some(""), Some("Created_At")}, sd \in {None},
     sh \in {Some(FALSE), Some(TRUE)}}

NextRequest ==
  \/ /\ Len(inflight) <= MaxOverlap
     /\ \E query \in {None, Some("")}, page \in {None}, size \in {None, Some(1)},
           filters \in FilterArgs : fetchMemories(query, page, size, filters)
  \/ \E i \in DOMAIN inflight : serverOk(i)
  \/ \E i \in DOMAIN inflight : serverFail(i)
  \/ \E i \in DOMAIN inflight : fetchMemoriesOk(i)
  \/ \E i \in DOMAIN inflight : fetchMemoriesFailed(i)

SpecRequest == Init /\ [][NextRequest]_vars

\* the page sizes the size selector offers
PageSizes == {1, 2, DefaultSize}

\* paging through the listing while records are deleted
NextPages ==
  \/ mount
  \/ \E page \in 1..totalPages : handlePageChange(page)
  \/ \E size \in PageSizes : handlePageSizeChange(size)
  \/ \E ids \in Selections : deleteMemories(ids)
  \/ \E i \in DOMAIN inflight : serverOk(i)
  \/ \E i \in DOMAIN inflight : fetchMemoriesOk(i)
  \/ \E i \in DOMAIN inflight : deleteMemoriesOk(i)

SpecPages == Init /\ [][NextPages]_vars

\* the filter dialog: app selections applied and cleared, and the sort order
NextFilters ==
  \/ mount
  \/ \E open \in BOOLEAN : handleDialogChange(open)
  \/ \E appId \in {"app1", "app2"} : toggleAppFilter(appId)
  \/ dialog.isOpen /\ handleApplyFilters(dialog.showArchived)
  \/ handleClearFilters
  \/ handleClearAllFilters
  \/ \E direction \in {"asc", "desc"} : setSortingState("created_at", direction)
  \/ \E i \in DOMAIN inflight : serverOk(i)
  \/ \E i \in DOMAIN inflight : fetchMemoriesOk(i)

SpecFilters == Init /\ [][NextFilters]_vars

\* the texts typed into the User ID input
UserIdTexts == {" ", "u1", "u2"}

\* user creation from the Create User dialog, and the users listing
NextUsers ==
  \/ createUserSetOpen
  \/ \E text \in UserIdTexts : typeUserId(text)
  \/ handleCreateUser
  \/ fetchUsers
  \/ dismissToast
  \/ \E i \in DOMAIN inflight : serverOk(i)
  \/ \E i \in DOMAIN inflight : serverFail(i)
  \/ \E i \in DOMAIN inflight : createUserOk(i)
  \/ \E i \in DOMAIN inflight : createUserFailed(i)
  \/ \E i \in DOMAIN inflight : usersRefreshOk(i)
  \/ \E i \in DOMAIN inflight : usersRefreshFailed(i)
  \/ \E i \in DOMAIN inflight : detailOk(i)
  \/ \E i \in DOMAIN inflight : detailFailed(i)

SpecUsers == Init /\ [][NextUsers]_vars

\* the operations started from the UI, one at a time, and their failures
NextNotify ==
  \/ Len(inflight) <= MaxOverlap /\ mount
  \/ Len(inflight) <= MaxOverlap /\ \E ids \in Selections : handleArchiveSelected(ids)
  \/ Len(inflight) <= MaxOverlap /\ \E ids \in Selections : deleteMemories(ids)
  \/ Len(inflight) <= MaxOverlap /\ createUserSetOpen
  \/ Len(inflight) <= MaxOverlap /\ \E text \in UserIdTexts : typeUserId(text)
  \/ Len(inflight) <= MaxOverlap /\ handleCreateUser
  \/ Len(inflight) <= MaxOverlap /\ searchSetOpen(TRUE)
  \/ Len(inflight) <= MaxOverlap /\ \E text \in Queries : setQuery(text)
  \/ Len(inflight) <= MaxOverlap /\ handleSemanticSearch
  \/ Len(inflight) <= MaxOverlap /\ dismissToast
  \/ \E i \in DOMAIN inflight : serverOk(i)
  \/ \E i \in DOMAIN inflight : serverFail(i)
  \/ \E i \in DOMAIN inflight : fetchMemoriesOk(i)
  \/ \E i \in DOMAIN inflight : fetchMemoriesFailed(i)
  \/ \E i \in DOMAIN inflight : ListResponse(i)
  \/ \E i \in DOMAIN inflight : createUserOk(i)
  \/ \E i \in DOMAIN inflight : createUserFailed(i)
  \/ \E i \in DOMAIN inflight : usersRefreshOk(i)
  \/ \E i \in DOMAIN inflight : usersRefreshFailed(i)
  \/ \E i \in DOMAIN inflight : semanticSearchOk(i)
  \/ \E i \in DOMAIN inflight : semanticSearchFailed(i)

SpecNotify == Init /\ [][NextNotify]_vars

\* semantic search against the list loads
NextSearch ==
  \/ mount
  \/ \E q \in Queries : handleSearch(q)
  \/ \E open \in BOOLEAN : searchSetOpen(open)
  \/ \E text \in Queries : setQuery(text)
  \/ handleSemanticSearch
  \/ handleClearSearch
  \/ \E open \in BOOLEAN : handleDialogChange(open)
  \/ handleClearFilters
  \/ handleClearAllFilters
  \/ \E i \in DOMAIN inflight : serverOk(i)
  \/ \E i \in DOMAIN inflight : fetchMemoriesOk(i)
  \/ \E i \in DOMAIN inflight : semanticSearchOk(i)
  \/ \E i \in DOMAIN inflight : listAllOk(i)

SpecSearch == Init /\ [][NextSearch]_vars

\* the filter dialog used while a semantic search may be active, one
\* operation at a time
NextDialog ==
  \/ Len(inflight) <= MaxOverlap /\ mount
  \/ Len(inflight) <= MaxOverlap /\ searchSetOpen(TRUE)
  \/ Len(inflight) <= MaxOverlap /\ setQuery("a")
  \/ Len(inflight) <= MaxOverlap /\ handleSemanticSearch
  \/ Len(inflight) <= MaxOverlap /\ \E open \in BOOLEAN : handleDialogChange(open)
  \/ Len(inflight) <= MaxOverlap /\ toggleAppFilter("app1")
  \/ Len(inflight) <= MaxOverlap /\ toggleCategoryFilter("work")
  \/ Len(inflight) <= MaxOverlap /\ toggleUserFilter("u1")
  \/ Len(inflight) <= MaxOverlap /\ addMetadataFilter("x")
  \/ Len(inflight) <= MaxOverlap /\ removeMetadataFilter
  \/ Len(inflight) <= MaxOverlap /\ \E checked \in BOOLEAN : toggleShowArchived(checked)
  \/ Len(inflight) <= MaxOverlap /\ dialog.isOpen /\ handleApplyFilters(dialog.showArchived)
  \/ \E i \in DOMAIN inflight : serverOk(i)
  \/ \E i \in DOMAIN inflight : fetchMemoriesOk(i)
  \/ \E i \in DOMAIN inflight : semanticSearchOk(i)

SpecDialog == Init /\ [][NextDialog]_vars

\* the Semantic Search dialog: its selections, the search and its outcome
NextSemantic ==
  \/ Len(inflight) <= MaxOverlap /\ mount
  \/ Len(inflight) <= MaxOverlap /\ \E open \in BOOLEAN : searchSetOpen(open)
  \/ Len(inflight) <= MaxOverlap /\ \E text \in Queries : setQuery(text)
  \/ Len(inflight) <= MaxOverlap /\ \E checked \in BOOLEAN : selectAllUsersChange(checked)
  \/ Len(inflight) <= MaxOverlap /\ \E checked \in BOOLEAN : searchUserChange("u1", checked)
  \/ Len(inflight) <= MaxOverlap /\ \E checked \in BOOLEAN : selectAllAppsChange(checked)
  \/ Len(inflight) <= MaxOverlap /\ \E checked \in BOOLEAN : searchAppChange("app1", checked)
  \/ Len(inflight) <= MaxOverlap /\ handleReset
  \/ Len(inflight) <= MaxOverlap /\ handleSemanticSearch
  \/ \E i \in DOMAIN inflight : serverOk(i)
  \/ \E i \in DOMAIN inflight : serverFail(i)
  \/ \E i \in DOMAIN inflight : fetchMemoriesOk(i)
  \/ \E i \in DOMAIN inflight : semanticSearchOk(i)
  \/ \E i \in DOMAIN inflight : semanticSearchFailed(i)

SpecSemantic == Init /\ [][NextSemantic]_vars

\* the texts typed into the metadata input
MetadataTexts == {"", " ", "{}", "{\"topic\": \"x\"}", "{topic"}

\* the three dialogs that validate their input before calling the API
NextValidate ==
  \/ Len(inflight) <= MaxOverlap /\ mount
  \/ Len(inflight) <= MaxOverlap /\ createUserSetOpen
  \/ Len(inflight) <= MaxOverlap /\ \E text \in UserIdTexts : typeUserId(text)
  \/ Len(inflight) <= MaxOverlap /\ handleCreateUser
  \/ Len(inflight) <= MaxOverlap /\ handleOpenChange(TRUE)
  \/ Len(inflight) <= MaxOverlap /\ \E text \in MetadataTexts : setMetadataText(text)
  \/ Len(inflight) <= MaxOverlap /\ handleCreateMemory("t")
  \/ Len(inflight) <= MaxOverlap /\ searchSetOpen(TRUE)
  \/ Len(inflight) <= MaxOverlap /\ \E text \in {" ", "a"} : setQuery(text)
  \/ Len(inflight) <= MaxOverlap /\ handleSemanticSearch
  \/ \E i \in DOMAIN inflight : serverOk(i)
  \/ \E i \in DOMAIN inflight : serverFail(i)
  \/ \E i \in DOMAIN inflight : fetchMemoriesOk(i)
  \/ \E i \in DOMAIN inflight : createUserOk(i)
  \/ \E i \in DOMAIN inflight : createUserFailed(i)
  \/ \E i \in DOMAIN inflight : usersRefreshOk(i)
  \/ \E i \in DOMAIN inflight : createMemoryOk(i)
  \/ \E i \in DOMAIN inflight : createMemoryFailed(i)
  \/ \E i \in DOMAIN inflight : semanticSearchOk(i)
  \/ \E i \in DOMAIN inflight : semanticSearchFailed(i)

SpecValidate == Init /\ [][NextValidate]_vars

\* ------------------------------------------------------------------ claims
OtherFetchInFlight(i) ==
  \E j \in DOMAIN inflight : j # i /\ inflight[j].kind = "fetch"

\* C1: of two list requests issued A then B, the response of A is not applied
\* once B was dispatched: when A's response arrives after B's was applied and
\* no other list request is in flight, the store's list and MemoriesSection's
\* list, total and page count stay those of B.
C1_LastRequestWins ==
  [][\A i \in DOMAIN inflight :
       (fetchMemoriesOk(i) /\ inflight[i].stale /\ lastStep.op = "fetchMemoriesOk"
          /\ ~OtherFetchInFlight(i))
       => (memories' = memories /\ sectionVars' = sectionVars)]_vars

FailureStep(i) == fetchMemoriesFailed(i) \/ detailFailed(i)

\* C2: a failed background fetch (list load, users, memory by id, access logs,
\* related memories) leaves the store's list, the users, the selected memory,
\* the access logs, the related memories and MemoriesSection's list, total and
\* page count as they were; the server, the filters and the URL are untouched,
\* and the error of the hook that made the call is set and its loading flag
\* cleared.
C2_FailedFetchRetainsData ==
  [][\A i \in DOMAIN inflight :
       FailureStep(i) =>
         /\ data' = data
         /\ serverVars' = serverVars /\ filterVars' = filterVars
         /\ IsSome(error'[inflight[i].hook])
         /\ ~isLoading'[inflight[i].hook]
         /\ \A h \in Hooks \ {inflight[i].hook} :
              error'[h] = error[h] /\ isLoading'[h] = isLoading[h]]_vars

\* every kind of data is held and a fetch has just failed
C2_Witness ==
  /\ lastStep.op \in {"fetchMemoriesFailed", "detailFailed"}
  /\ memories # <<>> /\ secMemories # <<>> /\ totalItems > 0 /\ totalPages > 0
  /\ IsSome(selectedMemory) /\ accessLogs # <<>> /\ relatedMemories # <<>> /\ users # <<>>
  /\ \E h \in Hooks : IsSome(error[h])

\* C3: after deleteMemories(ids) succeeds the store's list holds no memory
\* whose id is in ids; no list result the server returns holds a record that
\* is deleted when the request is served, whatever the request's filters;
\* when the delete request fails the list is unchanged.
C3_SoftDeleteExcluded ==
  [][\A i \in DOMAIN inflight :
       /\ deleteMemoriesOk(i) => IdsOf(memories') \cap inflight[i].ids = {}
       /\ deleteMemoriesFailed(i) => memories' = memories
       /\ (serverOk(i) /\ inflight[i].kind = "fetch") =>
            \A k \in DOMAIN inflight'[i].result.items :
              /\ inflight'[i].result.items[k].state # "deleted"
              /\ db[inflight'[i].result.items[k].id].state # "deleted"]_vars

\* a listed memory was deleted and is gone from the list, which still holds another
C3_Witness ==
  /\ lastStep.op = "deleteMemoriesOk"
  /\ memories # <<>>
  /\ \E m \in lastStep.ids :
       /\ m \in MemIds /\ db[m].state = "deleted"
       /\ m \in IdsOf(secMemories) /\ m \notin IdsOf(memories)

\* seq2 is seq1 without the members whose id is in ids: the others all
\* present, unchanged, in their order
IsRestOf(seq2, seq1, ids) ==
  /\ \A k \in DOMAIN seq2 : seq2[k].id \notin ids
  /\ Len(seq2) = Cardinality({k \in DOMAIN seq1 : seq1[k].id \notin ids})
  /\ \A k \in DOMAIN seq1 :
       seq1[k].id \notin ids =>
         seq2[Cardinality({j \in 1..k : seq1[j].id \notin ids})] = seq1[k]

\* C4: after updateMemoryState(ids, "archived") succeeds, the listing holds no
\* memory whose id is in ids, and every memory of the listing the caller held
\* when it made the call whose id is not in ids is present, unchanged and in
\* the same relative order.
C4_ArchiveEvicts ==
  [][\A i \in DOMAIN inflight :
       (updateMemoryStateOk(i) /\ inflight[i].state = "archived")
       => IsRestOf(memories', inflight[i].capMemories, inflight[i].ids)]_vars

\* a listed memory was archived and is gone from the list, which still holds another
C4_Witness ==
  /\ lastStep.op = "updateMemoryStateOk" /\ lastStep.state = "archived"
  /\ memories # <<>>
  /\ \E m \in lastStep.ids :
       /\ m \in MemIds /\ db[m].state = "archived"
       /\ m \in IdsOf(secMemories) /\ m \notin IdsOf(memories)

NoArchived(seq) == \A k \in DOMAIN seq : seq[k].state # "archived"

\* C5 as stated: with showArchived not set no archived memory is in the
\* listing, and with showArchived set a listed memory that is transitioned to
\* archived stays in the listing with state archived.
C5_ArchivedStaysListed ==
  [][/\ (~showArchived' => NoArchived(memories'))
     /\ \A i \in DOMAIN inflight :
          (updateMemoryStateOk(i) /\ inflight[i].state = "archived" /\ showArchived)
          => \A k \in DOMAIN inflight[i].capMemories :
               inflight[i].capMemories[k].id \in inflight[i].ids
               => \E j \in DOMAIN memories' :
                    memories'[j] = Mem(inflight[i].capMemories[k].id, "archived")]_vars

\* C5 as the code has it: a list load issued with showArchived not set brings
\* no archived memory into the listing, and one issued with showArchived set
\* and no other constraint lists every archived record with state archived;
\* whatever showArchived is, a memory that is transitioned to archived is
\* removed from the listing by the transition.
C5_ArchivedHiddenAndEvicted ==
  [][\A i \in DOMAIN inflight :
       /\ (fetchMemoriesOk(i) /\ ~inflight[i].capShowArchived) => NoArchived(memories')
       /\ (serverOk(i) /\ inflight[i].kind = "fetch" /\ inflight[i].section
             /\ inflight[i].capShowArchived /\ inflight[i].body.search_query = None)
          => \A m \in MemIds :
               db[m].state = "archived"
               => \E k \in DOMAIN inflight'[i].result.items :
                    inflight'[i].result.items[k] = Mem(m, "archived")
       /\ (updateMemoryStateOk(i) /\ inflight[i].state = "archived")
          => IdsOf(memories') \cap inflight[i].ids = {}]_vars

\* with showArchived set, a memory listed as archived next to another one has
\* just been archived again and is gone from the listing
C5_Witness ==
  /\ showArchived
  /\ lastStep.op = "updateMemoryStateOk" /\ lastStep.state = "archived"
  /\ \E k \in DOMAIN secMemories :
       /\ secMemories[k].id \in lastStep.ids
       /\ secMemories[k].state = "archived"
       /\ secMemories[k].id \notin IdsOf(memories)

\* C6: after updateMemoryState(ids, s) with s active or paused succeeds, the
\* listing is the one the caller held when it made the call with state s on
\* every memory whose id is in ids and the others unchanged; identifiers that
\* match no record change nothing; the selected memory the caller held has
\* state s when its id is in ids and is otherwise left as it is.
C6_UniformUpdate ==
  [][\A i \in DOMAIN inflight :
       (updateMemoryStateOk(i) /\ inflight[i].state \in {"active", "paused"})
       => LET r == inflight[i] IN
          /\ DOMAIN memories' = DOMAIN r.capMemories
          /\ \A k \in DOMAIN r.capMemories :
               memories'[k] = IF r.capMemories[k].id \in r.ids
                              THEN Mem(r.capMemories[k].id, r.state)
                              ELSE r.capMemories[k]
          /\ IF IsSome(r.capSelected) /\ Get(r.capSelected).id \in r.ids
             THEN selectedMemory' = Some(Mem(Get(r.capSelected).id, r.state))
             ELSE selectedMemory' = selectedMemory
          /\ error' = error]_vars

\* a call naming a listed memory and an identifier that matches no record has
\* succeeded: the one is paused, the other listed memory and the selected
\* memory, which the call did not name, are as they were
C6_Witness ==
  /\ lastStep.op = "updateMemoryStateOk" /\ lastStep.state = "paused"
  /\ lastStep.ids = {NumMem, GhostId}
  /\ \E k \in DOMAIN memories : memories[k] = Mem(NumMem, "paused")
  /\ \E k \in DOMAIN memories : memories[k].id \notin lastStep.ids /\ memories[k].state = "active"
  /\ IsSome(selectedMemory) /\ Get(selectedMemory).id \notin lastStep.ids
  /\ Get(selectedMemory).state = "active"
  /\ error["MemoryFilters"] = None

\* C7: every record's state is one of the four states and is the target of
\* the last transition call that included it; archived_at is set iff the
\* state is archived and deleted_at is set iff the state is deleted.
C7_StateAndTimestamps ==
  \A m \in MemIds :
    /\ db[m].state \in States
    /\ lastTarget[m] # "none" => db[m].state = lastTarget[m]
    /\ db[m].archived_at <=> db[m].state = "archived"
    /\ db[m].deleted_at <=> db[m].state = "deleted"

\* a record seen archived in the detail view has since been deleted: only
\* deleted_at is set
C7_Witness ==
  \E m \in MemIds :
    /\ selectedMemory = Some(Mem(m, "archived"))
    /\ lastTarget[m] = "deleted"
    /\ db[m].deleted_at /\ ~db[m].archived_at

Lifecycle(from, to) ==
  \/ from = to
  \/ from \in {"active", "paused"} /\ to \in {"active", "paused", "archived", "deleted"}
  \/ from = "archived" /\ to = "deleted"

\* C9: every state change of a memory the client holds, in the listing or as
\* the selected memory, follows the lifecycle: active and paused to each
\* other, to archived and to deleted, archived to deleted only, and deleted to
\* nothing.
C9_LifecycleFollowed ==
  [][/\ \A k \in DOMAIN memories, j \in DOMAIN memories' :
          memories[k].id = memories'[j].id
          => Lifecycle(memories[k].state, memories'[j].state)
     /\ (IsSome(selectedMemory) /\ IsSome(selectedMemory')
          /\ Get(selectedMemory).id = Get(selectedMemory').id)
        => Lifecycle(Get(selectedMemory).state, Get(selectedMemory').state)]_vars

Absent(o) == ~IsSome(o) \/ Get(o) = <<>>

AllEmpty(filters) ==
  /\ IsSome(filters)
  /\ \A f \in {"users", "apps", "app_names", "categories", "metadata"} : Absent(Field(filters, f))
  /\ Field(filters, "sortColumn") \in {None, Some("")}
  /\ Field(filters, "sortDirection") \in {None, Some("")}
  /\ Field(filters, "showArchived") \in {None, Some(FALSE)}

\* C10: in every filter request, each of the users, apps, app names and
\* categories lists and the metadata map is absent when the argument is absent
\* or empty and is the argument otherwise; user_id is absent; and the request
\* built from all-empty filters is the request built from the same query, page
\* and size with no filters.
C10_EmptyMeansAbsent ==
  \A i \in DOMAIN inflight :
    (inflight[i].kind = "fetch" /\ IsSome(inflight[i].args)) =>
      LET body == inflight[i].body
          query == Get(inflight[i].args)[1]
          page == Get(inflight[i].args)[2]
          size == Get(inflight[i].args)[3]
          filters == Get(inflight[i].args)[4]
      IN /\ body.user_id = None
         /\ \A p \in {<<"users", "user_ids">>, <<"apps", "app_ids">>,
                      <<"app_names", "app_names">>, <<"categories", "category_ids">>,
                      <<"metadata", "metadata_filters">>} :
              IF Absent(Field(filters, p[1]))
              THEN ~IsSome(body[p[2]])
              ELSE body[p[2]] = Field(filters, p[1])
         /\ AllEmpty(filters) => body = requestBody(query, page, size, None)

\* a request built from filters whose lists and map are all empty has been
\* served and has matched every record
C10_Witness ==
  \E i \in DOMAIN inflight :
    /\ inflight[i].kind = "fetch" /\ inflight[i].phase = "ok"
    /\ IsSome(inflight[i].args)
    /\ LET filters == Get(inflight[i].args)[4] IN
       /\ IsSome(filters)
       /\ \A f \in {"users", "apps", "app_names", "categories", "metadata"} :
            Field(filters, f) = Some(<<>>)
    /\ inflight[i].body.size = DefaultSize
    /\ inflight[i].result.total = NumMem

RECURSIVE PagesFrom(_, _, _, _)
\* the items of pages k..n of the listing a body asks for, in order
PagesFrom(d, body, k, n) ==
  IF k > n THEN <<>>
  ELSE ServerFilter(d, [body EXCEPT !.page = k]).items \o PagesFrom(d, body, k + 1, n)

\* the range MemoriesSection displays
RangeFirst == (currentPage - 1) * itemsPerPage + 1
RangeLast == Min(currentPage * itemsPerPage, totalItems)

\* C11: every list response reports ceil(T / S) pages and holds at most S
\* records, the pages 1..pages concatenated are the full unpaginated result,
\* and whenever MemoriesSection displays a range, (p-1)*S+1 and min(p*S, T)
\* both lie within 1..T.
C11_PaginationAndRange ==
  [][/\ \A i \in DOMAIN inflight :
          (serverOk(i) /\ inflight[i].kind = "fetch") =>
            LET r == inflight'[i] IN
            /\ r.result.pages = CeilDiv(r.result.total, r.body.size)
            /\ Len(r.result.items) <= r.body.size
            /\ PagesFrom(db, r.body, 1, r.result.pages) = Matching(db, r.body)
     /\ RangeShown' =>
          /\ RangeFirst' \in 1..totalItems'
          /\ RangeLast' \in 1..totalItems']_vars

RECURSIVE DefaultListing(_, _)
\* the non-deleted, non-archived records m, m-1, .., 1: creation time descending
DefaultListing(d, m) ==
  IF m = 0 THEN <<>>
  ELSE (IF d[m].state \in {"active", "paused"} THEN <<Mem(m, d[m].state)>> ELSE <<>>)
       \o DefaultListing(d, m - 1)

\* the records of a page of a listing
PageOf(all, page, size) == SubSeq(all, (page - 1) * size + 1, Min(page * size, Len(all)))

\* a request body with no constraint and no non-default ordering
Unconstrained(body) ==
  /\ body.user_id = None /\ body.user_ids = None /\ body.app_ids = None
  /\ body.app_names = None /\ body.category_ids = None
  /\ body.metadata_filters = None /\ body.show_archived = None
  /\ body.search_query = None
  /\ body.sort_column \in {None, Some("created_at")}
  /\ body.sort_direction \in {None, Some("desc")}

\* the requests the step has put in flight
NewRequests == {inflight'[k] : k \in (Len(inflight) + 1)..Len(inflight')}

NoSelections ==
  /\ filtersApps.selectedApps = <<>> /\ filtersApps.selectedCategories = <<>>
  /\ filtersApps.selectedUsers = <<>> /\ DOMAIN filtersApps.metadataFilters = {}
  /\ ~showArchived

ClearOps == {"handleClearAllFilters", "handleClearFilters"}

\* C12: in the initial filter state and after Clear All the app, category,
\* user and metadata selections are empty and showArchived is false; the list
\* requests issued by Clear All, and those issued in the initial filter state,
\* carry no constraint and no non-default ordering; and the server answers
\* such a request with all non-deleted, non-archived memories, newest first,
\* which is the list the store then holds.
C12_UnconstrainedListing ==
  [][/\ lastStep.op = "init" => NoSelections
     /\ lastStep'.op \in ClearOps => NoSelections'
     /\ (lastStep'.op \in ClearOps
          \/ (filtersApps = initialFilters /\ ~showArchived /\ search = ""
              /\ lastStep'.op = "mount"))
        => \A r \in NewRequests : Unconstrained(r.body)
     /\ \A i \in DOMAIN inflight :
          /\ (serverOk(i) /\ inflight[i].kind = "fetch" /\ Unconstrained(inflight[i].body))
             => inflight'[i].result.items =
                  PageOf(DefaultListing(db, NumMem), inflight[i].body.page, inflight[i].body.size)
          /\ fetchMemoriesOk(i) => memories' = inflight[i].result.items]_vars

\* the names of the apps whose ids are given
NamesOf(ids) == {Get(FindApp(ids[k])).name : k \in {j \in DOMAIN ids : IsSome(FindApp(ids[j]))}}

\* the names a request body asks for
NamesSent(body) == IF IsSome(body.app_names) THEN Range(Get(body.app_names)) ELSE {}

C14_LoadingWhileInFlight ==
  \A i \in DOMAIN inflight : isLoading[inflight[i].hook]

\* the continuation of a failed operation that was started from the UI
FailedOperation(i) ==
  \/ fetchMemoriesFailed(i)
  \/ updateMemoryStateFailed(i)
  \/ deleteMemoriesFailed(i)
  \/ createUserFailed(i)
  \/ usersRefreshFailed(i)
  \/ semanticSearchFailed(i)

\* C15: when an operation started from the UI fails (user creation, semantic
\* search, list load, bulk delete, bulk pause / resume / archive), an error
\* notification is on screen afterwards, and it can be dismissed.
C15_FailureNotified ==
  [][\A i \in DOMAIN inflight :
       FailedOperation(i) =>
         /\ IsSome(toast') /\ Get(toast').type = "error"
         /\ (ENABLED dismissToast)']_vars

\* C16: a createUser call for an identifier that exists is refused with
\* Conflict and the server's users are unchanged; when the refusal arrives
\* the hook's error is the server's detail, which is also the message
\* createUser rejects with, the loading flag is cleared, the users lists are
\* unchanged, and the dialog is still open on /users with its input untouched.
C16_ConflictChangesNothing ==
  [][\A i \in DOMAIN inflight :
       /\ (serverOk(i) /\ inflight[i].kind = "createUser"
            /\ inflight[i].body.user_id \in Range(userDb))
          => /\ userDb' = userDb
             /\ inflight'[i].phase = "err" /\ inflight'[i].detail = Some("Conflict")
       /\ (createUserFailed(i) /\ inflight[i].detail = Some("Conflict"))
          => /\ error'[inflight[i].hook] = Some("Conflict")
             /\ toast' = Toast("error", "Conflict")
             /\ ~isLoading'[inflight[i].hook]
             /\ userDb' = userDb /\ dialogUsers' = dialogUsers /\ users' = users
             /\ createUserDialog' = createUserDialog
             /\ createUserDialog.open /\ createUserDialog.route = "/users"]_vars

\* a creation of the existing user u1 has just been refused
C16_Witness ==
  /\ lastStep.op = "createUserFailed"
  /\ error["CreateUserDialog"] = Some("Conflict")
  /\ createUserDialog = [open |-> TRUE, userId |-> "u1", route |-> "/users"]
  /\ userDb = ServerUsers

\* C17: while semantic search is active, before and after the step, the
\* response of a structured-filter fetch does not change the store's list.
C17_SearchResultKept ==
  [][\A i \in DOMAIN inflight :
       (fetchMemoriesOk(i) /\ semanticSearch.active /\ semanticSearch'.active)
       => memories' = memories]_vars

\* the constraint a request carries for a list: absent when the list is empty
Constraint(list) == IF list = <<>> THEN None ELSE Some(list)

\* the body carries the selections of the dialog state d
Carries(body, d) ==
  /\ body.app_names = Constraint(d.tempSelectedAppNames)
  /\ body.category_ids = Constraint(selectedCategoryIds(d.tempSelectedCategories))
  /\ body.user_ids = Constraint(d.tempSelectedUsers)
  /\ body.metadata_filters = (IF DOMAIN d.metadataFilters = {} THEN None
                              ELSE Some(d.metadataFilters))
  /\ body.show_archived = (IF d.showArchived THEN Some(TRUE) ELSE None)

ToggleOps ==
  {"toggleAllApps", "toggleAppFilter", "toggleAllCategories", "toggleCategoryFilter",
   "toggleAllUsers", "toggleUserFilter", "addMetadataFilter", "removeMetadataFilter",
   "toggleShowArchived"}

\* C19: toggling app, category, user, metadata or archived selections in the
\* filter dialog, and closing the dialog without applying, leave
\* semanticSearch (active flag and query) unchanged.
C19_TogglesKeepSearch ==
  [][lastStep'.op \in ToggleOps \cup {"closeDialog"} => semanticSearch' = semanticSearch]_vars

\* C20: closing the filter dialog without applying leaves the applied filters
\* (apps, app names, categories, users, metadata, sort, showArchived)
\* unchanged and makes every temporary selection equal to the applied one;
\* so does reopening it.
C20_CloseKeepsApplied ==
  [][lastStep'.op \in {"closeDialog", "openDialog"} =>
       /\ filtersApps' = filtersApps /\ showArchived' = showArchived
       /\ dialog'.isOpen = (lastStep'.op = "openDialog")
       /\ dialog'.tempSelectedApps = filtersApps.selectedApps
       /\ dialog'.tempSelectedAppNames = filtersApps.selectedAppNames
       /\ dialog'.tempSelectedCategories = filtersApps.selectedCategories
       /\ dialog'.tempSelectedUsers = filtersApps.selectedUsers
       /\ dialog'.metadataFilters = filtersApps.metadataFilters
       /\ dialog'.showArchived = showArchived]_vars

\* the dialog was closed with temporary selections that differed from the
\* applied filters, which are not empty
C20_Witness ==
  /\ lastStep.op = "closeDialog" /\ lastStep.wasDirty
  /\ filtersApps.selectedApps = <<"app1">> /\ showArchived
  /\ ~dialog.isOpen

\* C21: handlePageSizeChange puts page 1 and the new size in the URL,
\* handlePageChange keeps the size, both keep the search parameter, and every
\* list load the step starts carries the page and size now in the URL.
C21_LoadUsesUrlPage ==
  [][lastStep'.op \in {"handlePageChange", "handlePageSizeChange"} =>
       /\ lastStep'.op = "handlePageSizeChange" => currentPage' = 1
       /\ lastStep'.op = "handlePageChange" => itemsPerPage' = itemsPerPage
       /\ search' = search
       /\ NewRequests # {}
       /\ \A r \in NewRequests :
            /\ r.body.page = currentPage' /\ r.body.size = itemsPerPage'
            /\ r.body.search_query = TextOrUndefined(Some(search))]_vars

\* C22: a search request carries user_ids (app_ids) only when "search all" is
\* off and the specific selection is not empty, and then it is that selection;
\* and after every step, "search all users" ("search all clients/agents")
\* being on, the specific selection is empty.
C22_SearchAllMeansNoSelection ==
  [][/\ searchDialog'.selectAllUsers => searchDialog'.selectedUsers = <<>>
     /\ searchDialog'.selectAllApps => searchDialog'.selectedApps = <<>>
     /\ lastStep'.op = "handleSemanticSearch" =>
          \A r \in NewRequests :
            /\ r.kind = "search"
            /\ r.body.user_ids # None <=>
                 (~searchDialog.selectAllUsers /\ searchDialog.selectedUsers # <<>>)
            /\ r.body.user_ids # None => r.body.user_ids = <<searchDialog.selectedUsers>>
            /\ r.body.app_ids # None <=>
                 (~searchDialog.selectAllApps /\ searchDialog.selectedApps # <<>>)
            /\ r.body.app_ids # None => r.body.app_ids = <<searchDialog.selectedApps>>]_vars

\* after an earlier search, one is sent with "search all users" off and u1
\* selected and with "search all clients/agents" on: it carries u1 and no apps
C22_Witness ==
  /\ lastStep.op = "handleSemanticSearch"
  /\ ~searchDialog.selectAllUsers /\ searchDialog.selectedUsers = <<"u1">>
  /\ searchDialog.selectAllApps /\ searchDialog.selectedApps = <<>>
  /\ semanticSearch.active
  /\ Len(inflight) = 1
  /\ inflight[1].kind = "search"
  /\ inflight[1].body.user_ids = <<<<"u1">>>> /\ inflight[1].body.app_ids = None

\* C23: a successful semantic search replaces the store's list by the results,
\* makes semantic search active with the query sent and closes the dialog; a
\* failed one leaves the store's list, semanticSearch and the dialog as they
\* were; after either the dialog's isLoading is false.
C23_SearchAllOrNothing ==
  [][/\ lastStep'.op = "semanticSearchOk" =>
          \E i \in DOMAIN inflight :
            /\ inflight[i].kind = "search" /\ inflight[i].phase = "ok"
            /\ inflight' = Remove(inflight, i)
            /\ IdsOf(memories') = IdsOf(inflight[i].result.items)
            /\ semanticSearch' = [active |-> TRUE, query |-> inflight[i].body.query]
            /\ ~searchDialog'.open
            /\ ~isLoading'["SearchMemoriesDialog"]
     /\ lastStep'.op = "semanticSearchFailed" =>
          /\ memories' = memories
          /\ semanticSearch' = semanticSearch
          /\ searchDialog' = searchDialog
          /\ ~isLoading'["SearchMemoriesDialog"]]_vars

\* after a search that succeeded, a second one failed with the dialog open:
\* the first result and the active mode are still there
C23_Witness ==
  /\ lastStep.op = "semanticSearchFailed"
  /\ searchDialog.open
  /\ semanticSearch = [active |-> TRUE, query |-> "a"]
  /\ memories # <<>>
  /\ ~isLoading["SearchMemoriesDialog"]

\* the metadata texts that are JSON
ValidJson == {"{}", "{\"topic\": \"x\"}"}

\* the step is a handler that found its input invalid
ValidationFailure ==
  \/ lastStep'.op = "handleCreateUser" /\ createUserDialog.userId \in {"", " "}
  \/ /\ lastStep'.op = "handleCreateMemory"
     /\ createMemoryDialog.metadataText \notin ValidJson \cup {"", " "}
  \/ lastStep'.op = "handleSemanticSearch" /\ searchDialog.query \in {"", " "}

\* C24: a handler that finds a blank user id, a metadata text that is not
\* JSON, or a blank search query puts no request in flight, leaves the
\* server's and the displayed data unchanged, and leaves its dialog open.
C24_ValidationAborts ==
  [][ValidationFailure =>
       /\ inflight' = inflight
       /\ UNCHANGED <<serverVars, userDb, data, semanticSearch, dialogUsers>>
       /\ createUserDialog' = createUserDialog
       /\ searchDialog' = searchDialog
       /\ createMemoryDialog'.open = createMemoryDialog.open
       /\ createMemoryDialog'.metadataText = createMemoryDialog.metadataText]_vars

\* Create Memory has just refused a metadata text that is not JSON, while the
\* notification of a refused blank search query is still shown
C24_Witness ==
  /\ lastStep.op = "handleCreateMemory"
  /\ createMemoryDialog.open
  /\ createMemoryDialog.metadataText = "{topic"
  /\ createMemoryDialog.metadataError = "Invalid JSON format"
  /\ toast = Toast("error", "Please enter a search query")
  /\ createUserDialog.open /\ createUserDialog.userId = " "
  /\ inflight = <<>> /\ createdMemories = <<>>

\* C25: once the POST of createUser has succeeded, createUser resolves whether
\* the refresh of the users list succeeds or fails: its error stays unset and
\* handleCreateUser goes on to the success notification and closes the dialog.
C25_RefreshFailureNotReported ==
  [][lastStep'.op \in {"usersRefreshOk", "usersRefreshFailed"} =>
       /\ error'["CreateUserDialog"] = None
       /\ toast' = Toast("success", "created")
       /\ ~createUserDialog'.open]_vars

====
